---- MODULE Spec2Model ----
(***************************************************************************)
(* A model of ztractor: the translator execution engine (extractMetadata,  *)
(* executeDetectWeb, executeDoWeb, Item.complete), the translator resolver *)
(* (matchesTarget, findMatchingTranslators), the XPath bridge between the  *)
(* linkedom tree and the xmldom tree (document.evaluate,                   *)
(* findMatchingLinkedomNode, getNodePath), the sandbox's fetch helpers     *)
(* (processDocuments, resolveUrl), the descriptor parser                   *)
(* (parseTranslatorMetadata) and Item.toJSON.                              *)
(*                                                                         *)
(* The specifications share the module: Spec (one extractMetadata run),    *)
(* SpecResolve (the resolver), SpecXPath (the bridge), SpecBatch and       *)
(* SpecBatchFair (processDocuments), SpecFetch (URL resolution of the      *)
(* fetch helpers), SpecParse (the descriptor parser), SpecItem (one Item   *)
(* and the record it hands over), SpecPath (getNodePath), SpecResult (one  *)
(* XPathResult and its accessors), SpecIter (several results iterated at   *)
(* once), SpecRuns (two extractMetadata calls in flight), SpecTop (a call   *)
(* from its first line: registry, page fetch, parse, loop) and SpecFair    *)
(* (Spec with the engine's own steps fair).  Each leaves the variables of  *)
(* the others at their initial values.                                     *)
(***************************************************************************)
EXTENDS Integers, Sequences, FiniteSets, TLC

\* ------------------------------------------------------------------------
\* Bounds of the model
\* ------------------------------------------------------------------------

\* Longest list findTranslatorsForUrl returns in the model.
MaxCands == 2

\* Most Zotero.Item builders created during one run.
MaxBuilders == 2

\* Most complete() calls made on one builder.
MaxCompleteCalls == 2

VARIABLES
    \* --- the engine (packages/core/src/index.ts, executor.ts, item.ts)
    pc,                  \* position of extractMetadata
    matchingTranslators, \* the list findTranslatorsForUrl(url) returned: labels
    idx,                 \* index of the for-loop's current entry (0: none)
    detectOutcome,       \* what each candidate's detectWeb did; "none" before
    itemType,            \* what executeDetectWeb returned for each candidate
    doWeb,               \* each candidate's executeDoWeb: none/running/returned/thrown
    builders,            \* every Zotero.Item created, in creation order
    items,               \* the `items` array of each executeDoWeb call
    resolved,            \* the array each executeDoWeb promise resolved with:
                         \*   -1 not settled, 0 a fresh [], c the array items[c]
    result,              \* what extractMetadata returned
    \* --- history of the run (observations, not program state)
    returnedItems,       \* contents of the resolved array when it was resolved
    finalOrder,          \* builders in the order of their first complete(), each
                         \*   with when it happened: in detectWeb ("detect"), in
                         \*   doWeb's synchronous part ("sync"), before the owner's
                         \*   promise resolved ("grace") or after it ("late")
    \* --- the resolver (src/src/translator-loader.ts)
    rpc,                 \* "start" before, "done" after findMatchingTranslators
    url,                 \* the URL to resolve
    translators,         \* the catalog
    matches,             \* what findMatchingTranslators returned
    targetMatch,         \* the last matchesTarget call: its pattern and outcome
    \* --- the XPath bridge (packages/node dom-utils)
    xpc,                 \* "parsed" after parseHTMLDocument, "evaluated" after a query
    xmlDoc,              \* the xmldom tree (secondary): nodes in document order
    linkedomDoc,         \* the linkedom tree (primary): nodes in document order
    expression,          \* the XPath expression of the query
    xresult,             \* the linkedom nodes document.evaluate returned
    \* --- the batch-document helper (packages/core/src/translator-sandbox.ts)
    bpc,                 \* position of processDocuments
    urls,                \* its `urls` argument
    hasDone,             \* whether a `done` callback was passed
    bidx,                \* index of the for-loop's current URL (0: none)
    pending,             \* URLs whose visitor returned a promise not yet settled
    blog,                \* history: what happened to which URL, in order
    doneCalls,           \* history: how many times done() was called
    \* --- the networked fetch helpers (translator-sandbox.ts, executor.ts)
    fpc,                 \* "ready" once the sandbox exists
    pageUrl,             \* the URL of the page the sandbox was made for
    helper,              \* the helper called last
    requestUrl,          \* the URL it was called with
    fetchedUrl,          \* the URL it handed to the network
    \* --- the descriptor parser (src/src/translator-loader.ts)
    ppc,                 \* "start" before, "done" after parseTranslatorMetadata
    header,              \* what the source text was written from (observation)
    code,                \* the source text: a sequence of tokens
    metadata,            \* what parseTranslatorMetadata returned
    \* --- one Item and the record it hands over (packages/core/src/item.ts)
    item,                \* the Item: its fields; array fields hold references
    heap,                \* the arrays the references denote
    handed,              \* the objects passed to the completion callback
    handedValue,         \* history: what each held when it was passed
    \* --- getNodePath on its own (packages/node dom-utils)
    pathDoc,             \* an xmldom tree
    pathNode,            \* the node getNodePath was last called on (0: none)
    nodePath,            \* the path it returned
    \* --- the results of path queries (packages/node dom-utils)
    queries,             \* every XPathResult made: its query, nodes, currentIndex
    yielded,             \* history: what iterateNext returned, per result
    access,              \* the last snapshotItem call and what it returned
    \* --- two extractMetadata calls in flight (packages/core/src/index.ts)
    registry,            \* the module's translatorsRegistry: unset or loaded
    runs,                \* per call: where it stands, its candidates, result
    arrays,              \* the `items` arrays of the executeDoWeb calls
    \* --- extractMetadata before the loop (packages/core/src/index.ts)
    options,             \* the options of the call: html
    fetchCalls           \* history: fetch(url, ...) calls made for the page

engineVars == <<pc, matchingTranslators, idx, detectOutcome, itemType, doWeb,
                builders, items, resolved, result, returnedItems, finalOrder>>
resolveVars == <<rpc, url, translators, matches, targetMatch>>
xpathVars == <<xpc, xmlDoc, linkedomDoc, expression, xresult>>
batchVars == <<bpc, urls, hasDone, bidx, pending, blog, doneCalls>>
fetchVars == <<fpc, pageUrl, helper, requestUrl, fetchedUrl>>
parseVars == <<ppc, header, code, metadata>>
itemVars == <<item, heap, handed, handedValue>>
pathVars == <<pathDoc, pathNode, nodePath>>
iterVars == <<queries, yielded, access>>
runVars == <<registry, runs, arrays>>
topVars == <<options, fetchCalls>>
moreVars == <<iterVars, runVars, topVars>>
helperVars == <<batchVars, fetchVars, parseVars, itemVars, pathVars, moreVars>>
vars == <<engineVars, resolveVars, xpathVars, helperVars>>

\* ------------------------------------------------------------------------
\* Helpers
\* ------------------------------------------------------------------------

Range(s) == {s[i] : i \in DOMAIN s}

\* ------------------------------------------------------------------------
\* Placeholders: what the variables of a specification not under study hold
\* ------------------------------------------------------------------------

EngineIdle ==
    /\ pc = "off"
    /\ matchingTranslators = <<>>
    /\ idx = 0
    /\ detectOutcome = <<>>
    /\ itemType = <<>>
    /\ doWeb = <<>>
    /\ builders = <<>>
    /\ items = <<>>
    /\ resolved = <<>>
    /\ result = [status |-> "none", items |-> 0, translator |-> 0]
    /\ returnedItems = <<>>
    /\ finalOrder = <<>>

ResolveIdle ==
    /\ rpc = "off"
    /\ url = <<>>
    /\ translators = <<>>
    /\ matches = <<>>
    /\ targetMatch = <<>>

XPathIdle ==
    /\ xpc = "off"
    /\ xmlDoc = <<>>
    /\ linkedomDoc = <<>>
    /\ expression = [tag |-> ""]
    /\ xresult = <<>>

BatchIdle ==
    /\ bpc = "off"
    /\ urls = <<>>
    /\ hasDone = FALSE
    /\ bidx = 0
    /\ pending = {}
    /\ blog = <<>>
    /\ doneCalls = 0

FetchIdle ==
    /\ fpc = "off"
    /\ pageUrl = <<>>
    /\ helper = "none"
    /\ requestUrl = <<>>
    /\ fetchedUrl = <<>>

ParseIdle ==
    /\ ppc = "off"
    /\ header = <<>>
    /\ code = <<>>
    /\ metadata = <<>>

ItemIdle ==
    /\ item = <<>>
    /\ heap = <<>>
    /\ handed = <<>>
    /\ handedValue = <<>>

PathIdle ==
    /\ pathDoc = <<>>
    /\ pathNode = 0
    /\ nodePath = <<>>

\* No accessor of a result was called yet.
NoAccess ==
    [op |-> "none", q |-> 0, index |-> 0,
     expression |-> [tag |-> "", relative |-> FALSE], value |-> <<>>]

IterIdle ==
    /\ queries = <<>>
    /\ yielded = <<>>
    /\ access = NoAccess

RunsIdle ==
    /\ registry = "unset"
    /\ runs = <<>>
    /\ arrays = <<>>

TopIdle ==
    /\ options = [html |-> "undefined"]
    /\ fetchCalls = 0

MoreIdle == IterIdle /\ RunsIdle /\ TopIdle

HelperIdle ==
    BatchIdle /\ FetchIdle /\ ParseIdle /\ ItemIdle /\ PathIdle /\ MoreIdle

\* ------------------------------------------------------------------------
\* Item (packages/core/src/item.ts)
\* ------------------------------------------------------------------------

\* new Zotero.Item(...) in the sandbox of candidate c.  executeDoWeb's sandbox
\* passes onItemComplete, executeDetectWeb's sandbox passes undefined.
NewBuilder(c, phase) ==
    [owner |-> c, phase |-> phase, onComplete |-> (phase = "doWeb"),
     completed |-> FALSE, completeCalls |-> 0, callbackRuns |-> 0]

\* Mutant of CompleteRunsCallback: the `if (this.completed) return` guard is
\* missing.
CompleteRunsCallbackNoGuard(b) == b.onComplete

\* Item.complete(): does this call reach `this._onComplete(this.toJSON())`?
CompleteRunsCallback(b) == ~b.completed /\ b.onComplete

\* Item.complete(): the builder after the call.  completeCalls and
\* callbackRuns count the calls made and the callback runs (history).
CompleteItem(b) ==
    [b EXCEPT !.completed = TRUE,
              !.completeCalls = @ + 1,
              !.callbackRuns = IF CompleteRunsCallback(b) THEN @ + 1 ELSE @]

\* ------------------------------------------------------------------------
\* The engine: extractMetadata, executeDetectWeb, executeDoWeb
\* ------------------------------------------------------------------------

Cands == 1..Len(matchingTranslators)

\* What a translator's detectWeb can do: return an item type, return false,
\* be absent or return nothing, throw, or (an async detectWeb) reject, or
\* return a promise that is still pending.
DetectOutcomes == {"itemType", "false", "absent", "throw", "reject", "pending"}

\* What a pending promise of detectWeb can settle with.
SettleOutcomes == {"itemType", "false", "reject"}

\* executeDetectWeb: the value its promise settles with.  A thrown fault is
\* caught and becomes null; a translator without detectWeb gives null; a
\* rejected promise returned by detectWeb is not caught here ("raise").
DetectWebResult(o) ==
    CASE o = "itemType" -> "itemType"
      [] o = "false"    -> "false"
      [] o = "absent"   -> "null"
      [] o = "throw"    -> "null"
      [] o = "reject"   -> "raise"
      [] o = "pending"  -> "pending"

\* Mutant of DetectPositive: the test is `itemType === false`, so that null
\* (an absent detectWeb, a caught fault) counts as positive.
DetectPositiveNotFalse(r) == r \notin {"false", "raise"}

\* extractMetadata: `if (!itemType) continue`, with the enclosing try/catch
\* turning a rejection into `continue` as well.  TRUE when doWeb is run.
DetectPositive(r) == r = "itemType"

\* The array a reference denotes: 0 is a fresh [] nobody else holds.
Deref(r) == IF r = 0 THEN <<>> ELSE items[r]

\* Mutant of CatchResolvesWith: the catch block calls resolve(items).
CatchResolvesWithItems(c) == c

\* executeDoWeb's catch block: the array the promise resolves with.
CatchResolvesWith(c) == 0

\* Mutant of TimerResolvesWith: the timer callback calls resolve([]).
TimerResolvesWithEmpty(c) == 0

\* executeDoWeb's timer callback: the array the promise resolves with.
TimerResolvesWith(c) == c

\* Mutant of HasItems: the test is `items.length >= 0`.
HasItemsOrNone(arr) == Len(arr) >= 0

\* extractMetadata: `if (items.length > 0) return {success: true, ...}`.
HasItems(arr) == Len(arr) > 0

\* Mutant of Continue: the loop tries the entry it just tried once more.
ContinueRetriesSame ==
    /\ idx' = idx
    /\ pc' = "detect"
    /\ result' = result

\* Mutant of Continue: falling off the end of the loop returns the error of
\* the empty list.
ContinueReportsNoMatch ==
    IF idx < Len(matchingTranslators)
    THEN /\ idx' = idx + 1
         /\ pc' = "detect"
         /\ result' = result
    ELSE /\ idx' = idx
         /\ pc' = "done"
         /\ result' = [status |-> "noMatch", items |-> 0, translator |-> 0]

\* The loop going on to the next entry, or falling off its end.
Continue ==
    IF idx < Len(matchingTranslators)
    THEN /\ idx' = idx + 1
         /\ pc' = "detect"
         /\ result' = result
    ELSE /\ idx' = idx
         /\ pc' = "done"
         /\ result' = [status |-> "noExtract", items |-> 0, translator |-> 0]

\* extractMetadata after `await executeDoWeb(...)` settled with array r.
AfterDoWeb(r, arr) ==
    IF HasItems(arr)
    THEN /\ result' = [status |-> "success", items |-> r,
                       translator |-> matchingTranslators[idx]]
         /\ pc' = "done"
         /\ idx' = idx
    ELSE Continue

\* The lists findTranslatorsForUrl can return: up to MaxCands registry
\* entries, each standing for its metadata.label (101, 102, ...).
CandidateLists == {[i \in 1..n |-> 100 + i] : n \in 0..MaxCands}

\* The state of a call that has not reached its loop.
BeforeLoop ==
    /\ matchingTranslators \in CandidateLists
    /\ idx = 0
    /\ detectOutcome = [c \in Cands |-> "none"]
    /\ itemType = [c \in Cands |-> "none"]
    /\ doWeb = [c \in Cands |-> "none"]
    /\ builders = <<>>
    /\ items = [c \in Cands |-> <<>>]
    /\ resolved = [c \in Cands |-> -1]
    /\ result = [status |-> "none", items |-> 0, translator |-> 0]
    /\ returnedItems = [c \in Cands |-> <<>>]
    /\ finalOrder = <<>>

EngineInit ==
    /\ pc = "resolve"
    /\ BeforeLoop

\* extractMetadata: findTranslatorsForUrl(url) and the empty-list return.
FindTranslators ==
    /\ pc = "resolve"
    /\ UNCHANGED <<resolveVars, xpathVars, helperVars>>
    /\ IF Len(matchingTranslators) = 0
       THEN /\ result' = [status |-> "noMatch", items |-> 0, translator |-> 0]
            /\ pc' = "done"
            /\ idx' = idx
       ELSE /\ idx' = 1
            /\ pc' = "detect"
            /\ result' = result
    /\ UNCHANGED <<matchingTranslators, detectOutcome, itemType, doWeb, builders,
                   items, resolved, returnedItems, finalOrder>>

\* extractMetadata after `await executeDetectWeb(...)` settled with value r.
AfterDetectWeb(r) ==
    IF DetectPositive(r)
    THEN /\ pc' = "doWeb"
         /\ doWeb' = [doWeb EXCEPT ![idx] = "running"]
         /\ UNCHANGED <<idx, result>>
    ELSE /\ Continue
         /\ UNCHANGED doWeb

\* `await executeDetectWeb(translator, doc, url)` and the test of its value.
\* detectWeb runs to its end in one step; it may create and complete an Item,
\* which has no completion callback in this sandbox.
ExecuteDetectWeb ==
    /\ pc = "detect"
    /\ UNCHANGED <<resolveVars, xpathVars, helperVars>>
    /\ \E o \in DetectOutcomes,
          mk \in IF Len(builders) < MaxBuilders THEN BOOLEAN ELSE {FALSE} :
        /\ detectOutcome' = [detectOutcome EXCEPT ![idx] = o]
        /\ itemType' = [itemType EXCEPT ![idx] = DetectWebResult(o)]
        /\ builders' = IF mk
                       THEN Append(builders, CompleteItem(NewBuilder(idx, "detect")))
                       ELSE builders
        /\ finalOrder' = IF mk
                         THEN Append(finalOrder,
                                     [b |-> Len(builders) + 1, when |-> "detect"])
                         ELSE finalOrder
        /\ IF o = "pending"
           THEN /\ pc' = "probing"
                /\ UNCHANGED <<idx, result, doWeb>>
           ELSE AfterDetectWeb(DetectWebResult(o))
    /\ UNCHANGED <<matchingTranslators, items, resolved, returnedItems>>

\* The promise `await executeDetectWeb(...)` waits for settles.  Nothing
\* bounds the wait: the promise is the translator's own.
ProbeSettles ==
    /\ pc = "probing"
    /\ UNCHANGED <<resolveVars, xpathVars, helperVars>>
    /\ \E o \in SettleOutcomes :
        /\ detectOutcome' = [detectOutcome EXCEPT ![idx] = o]
        /\ itemType' = [itemType EXCEPT ![idx] = DetectWebResult(o)]
        /\ AfterDetectWeb(DetectWebResult(o))
    /\ UNCHANGED <<matchingTranslators, builders, items, resolved, returnedItems,
                   finalOrder>>

\* Translator code of candidate c runs `new Zotero.Item(...)`.
CreateItem(c) ==
    /\ Len(builders) < MaxBuilders
    /\ builders' = Append(builders, NewBuilder(c, "doWeb"))
    /\ UNCHANGED <<pc, matchingTranslators, idx, detectOutcome, itemType, doWeb,
                   items, resolved, result, returnedItems, finalOrder>>

\* Mutant of PushesTo: the callback pushes onto the array of the candidate
\* the loop is at.
PushesToCurrent(b) == idx

\* The callback a sandbox gives its Items closes over the `items` array of
\* the executeDoWeb call that made the sandbox: the array of b's owner.
PushesTo(b) == builders[b].owner

\* Translator code runs `item.complete()` on builder b; the callback of
\* executeDoWeb's sandbox is `(item) => { items.push(item) }`.
CallComplete(b) ==
    /\ builders[b].completeCalls < MaxCompleteCalls
    /\ builders' = [builders EXCEPT ![b] = CompleteItem(@)]
    /\ items' = IF CompleteRunsCallback(builders[b])
                THEN [items EXCEPT ![PushesTo(b)] = Append(@, b)]
                ELSE items
    /\ finalOrder' = IF ~builders[b].completed
                     THEN Append(finalOrder,
                                 [b |-> b,
                                  when |-> IF resolved[builders[b].owner] # -1
                                           THEN "late"
                                           ELSE IF pc = "doWeb" THEN "sync"
                                           ELSE "grace"])
                     ELSE finalOrder
    /\ UNCHANGED <<pc, matchingTranslators, idx, detectOutcome, itemType, doWeb,
                   resolved, result, returnedItems>>

OwnBuilders(c) ==
    {b \in DOMAIN builders : builders[b].owner = c /\ builders[b].phase = "doWeb"}

\* The synchronous part of doWeb(doc, url) of the current candidate.
SyncCreateItem ==
    /\ pc = "doWeb"
    /\ CreateItem(idx)
    /\ UNCHANGED <<resolveVars, xpathVars, helperVars>>

SyncComplete ==
    /\ pc = "doWeb"
    /\ \E b \in OwnBuilders(idx) : CallComplete(b)
    /\ UNCHANGED <<resolveVars, xpathVars, helperVars>>

\* doWeb throws: the catch block resolves the promise at once.
DoWebThrows ==
    /\ pc = "doWeb"
    /\ UNCHANGED <<resolveVars, xpathVars, helperVars>>
    /\ doWeb' = [doWeb EXCEPT ![idx] = "thrown"]
    /\ resolved' = [resolved EXCEPT ![idx] = CatchResolvesWith(idx)]
    /\ returnedItems' = [returnedItems EXCEPT ![idx] = Deref(CatchResolvesWith(idx))]
    /\ AfterDoWeb(CatchResolvesWith(idx), Deref(CatchResolvesWith(idx)))
    /\ UNCHANGED <<matchingTranslators, detectOutcome, itemType, builders, items,
                   finalOrder>>

\* doWeb returns: setTimeout(() => resolve(items), 100) is armed.  The value
\* doWeb returned is dropped, so an async doWeb (whose call returns a promise,
\* pending, fulfilled or rejected, and never throws) takes this step too.
DoWebReturns ==
    /\ pc = "doWeb"
    /\ UNCHANGED <<resolveVars, xpathVars, helperVars>>
    /\ doWeb' = [doWeb EXCEPT ![idx] = "returned"]
    /\ pc' = "grace"
    /\ UNCHANGED <<matchingTranslators, idx, detectOutcome, itemType, builders,
                   items, resolved, result, returnedItems, finalOrder>>

\* The 100 ms timer fires: resolve(items), and extractMetadata goes on in the
\* same task, so no translator callback runs in between.
GraceTimeout ==
    /\ pc = "grace"
    /\ UNCHANGED <<resolveVars, xpathVars, helperVars>>
    /\ resolved' = [resolved EXCEPT ![idx] = TimerResolvesWith(idx)]
    /\ returnedItems' = [returnedItems EXCEPT ![idx] = Deref(TimerResolvesWith(idx))]
    /\ AfterDoWeb(TimerResolvesWith(idx), Deref(TimerResolvesWith(idx)))
    /\ UNCHANGED <<matchingTranslators, detectOutcome, itemType, doWeb, builders,
                   items, finalOrder>>

\* Asynchronous work a doWeb left behind (a fetch callback, a timer) runs
\* while the event loop is free: during a grace period, while a probe's
\* promise is pending, or after the run.
Started(c) == doWeb[c] \in {"returned", "thrown"}

AsyncCreateItem ==
    /\ pc \in {"grace", "probing", "done"}
    /\ UNCHANGED <<resolveVars, xpathVars, helperVars>>
    /\ \E c \in Cands : Started(c) /\ CreateItem(c)

AsyncComplete ==
    /\ pc \in {"grace", "probing", "done"}
    /\ UNCHANGED <<resolveVars, xpathVars, helperVars>>
    /\ \E c \in Cands : Started(c) /\ \E b \in OwnBuilders(c) : CallComplete(b)

Next ==
    \/ FindTranslators
    \/ ExecuteDetectWeb
    \/ ProbeSettles
    \/ SyncCreateItem
    \/ SyncComplete
    \/ DoWebThrows
    \/ DoWebReturns
    \/ GraceTimeout
    \/ AsyncCreateItem
    \/ AsyncComplete

Init == EngineInit /\ ResolveIdle /\ XPathIdle /\ HelperIdle

Spec == Init /\ [][Next]_vars

\* ------------------------------------------------------------------------
\* Properties of the engine
\* ------------------------------------------------------------------------

Probed(c) == detectOutcome[c] # "none"

ProbePositive(c) == detectOutcome[c] = "itemType"

ProbeNegative(c) == detectOutcome[c] \in {"false", "absent", "throw", "reject"}

Settled(c) == resolved[c] # -1

\* The loop has left candidate c behind: the next candidate is being or has
\* been probed, or c was the last one and the run ended without a winner.
WentOnAfter(c) ==
    IF c < Len(matchingTranslators)
    THEN idx > c /\ (Probed(c + 1) \/ (idx = c + 1 /\ pc = "detect"))
    ELSE pc = "done" /\ result.status = "noExtract"

\* The builders candidate c's extraction finalized up to the end of its grace
\* period (up to the resolution of its promise), in finalization order.
FinalizedInTime(c) ==
    LET sel == SelectSeq(finalOrder,
                         LAMBDA e : /\ builders[e.b].owner = c
                                    /\ e.when \in {"sync", "grace"})
    IN [i \in DOMAIN sel |-> sel[i].b]

\* How many times builder b occurs in the items arrays.
Occurrences(b) ==
    Cardinality({p \in UNION {{<<c, i>> : i \in DOMAIN items[c]} : c \in Cands} :
                    items[p[1]][p[2]] = b})

\* C1: a successful run returns the label and the records of the first
\* candidate, in list order, whose probe was positive and whose extraction
\* finished with at least one record; every earlier candidate probed negative
\* or extracted nothing, no later candidate was probed or extracted; and a
\* run that ends without success had no such candidate.
C1_FirstProducerWins ==
    /\ result.status = "success" =>
         \E w \in Cands :
            /\ result.translator = matchingTranslators[w]
            /\ result.items = resolved[w]
            /\ ProbePositive(w)
            /\ Settled(w)
            /\ Len(returnedItems[w]) > 0
            /\ \A c \in Cands : c < w =>
                  \/ ProbeNegative(c)
                  \/ ProbePositive(c) /\ Settled(c) /\ returnedItems[c] = <<>>
            /\ \A c \in Cands : c > w => ~Probed(c) /\ doWeb[c] = "none"
    /\ (pc = "done" /\ result.status # "success") =>
         \A c \in Cands :
            ~(ProbePositive(c) /\ Settled(c) /\ Len(returnedItems[c]) > 0)

\* C1 witness: the second candidate wins after the first one was skipped.
C1_Witness ==
    /\ Len(matchingTranslators) = 2
    /\ result.status = "success"
    /\ result.translator = matchingTranslators[2]
    /\ Len(returnedItems[2]) > 0

\* C2: a candidate whose probe returned a falsy or absent result, threw or
\* rejected is skipped: its extraction is never invoked and the loop goes on
\* to the next candidate (or ends exhausted when it was the last).
C2_NegativeProbeSkipped ==
    \A c \in Cands : ProbeNegative(c) =>
        /\ doWeb[c] = "none"
        /\ ~Settled(c)
        /\ items[c] = <<>>
        /\ OwnBuilders(c) = {}
        /\ WentOnAfter(c)

\* C2 witness: the first probe throws and the second candidate still wins.
C2_Witness ==
    /\ Len(matchingTranslators) = 2
    /\ detectOutcome[1] = "throw"
    /\ result.status = "success"
    /\ result.translator = matchingTranslators[2]

C6_ReturnedAreFinalizedInTime_AsStated ==
    \A c \in Cands : Settled(c) => returnedItems[c] = FinalizedInTime(c)

\* C6 amended: the same, for an extraction whose entry point returned without
\* throwing (so that its grace period ran).
C6_ReturnedAreFinalizedInTime ==
    \A c \in Cands :
        (Settled(c) /\ doWeb[c] = "returned") => returnedItems[c] = FinalizedInTime(c)

\* C6 witness: an extraction returned two records, one finalized in its
\* synchronous part and one finalized asynchronously within the grace period.
C6_Witness ==
    \E c \in Cands :
        /\ Settled(c)
        /\ doWeb[c] = "returned"
        /\ Len(returnedItems[c]) = 2
        /\ \E i, j \in DOMAIN finalOrder :
              /\ finalOrder[i].when = "sync"
              /\ finalOrder[j].when = "grace"
              /\ builders[finalOrder[i].b].owner = c
              /\ builders[finalOrder[j].b].owner = c

\* C7: a record emitted after the grace period has elapsed never appears in,
\* and never changes, the record list extractMetadata returned for the
\* winning candidate: the list still holds what it held when it was returned.
C7_LateEmitLeavesReturnedList ==
    result.status = "success" =>
        \E w \in Cands :
            /\ result.translator = matchingTranslators[w]
            /\ Deref(result.items) = returnedItems[w]

\* C10: over any sequence of complete() calls on a builder, its completion
\* callback has run exactly once as soon as complete() was called at all (and
\* never without a call), so the builder contributes exactly that one record;
\* a builder without a callback contributes none.
C10_CompleteIsIdempotent ==
    \A b \in DOMAIN builders :
        /\ builders[b].completed = (builders[b].completeCalls > 0)
        /\ builders[b].callbackRuns =
              IF builders[b].onComplete /\ builders[b].completeCalls > 0 THEN 1 ELSE 0
        /\ Occurrences(b) = builders[b].callbackRuns

\* C10 witness: complete() was called twice on a builder with a callback.
C10_Witness ==
    \E b \in DOMAIN builders :
        /\ builders[b].onComplete
        /\ builders[b].completeCalls = 2
        /\ builders[b].callbackRuns = 1
        /\ Occurrences(b) = 1

\* A candidate that was tried and gave nothing: its probe was negative, or
\* its extraction settled with no record.
GaveNothing(c) ==
    \/ ProbeNegative(c)
    \/ ProbePositive(c) /\ Settled(c) /\ returnedItems[c] = <<>>

\* C11: a finished run reports "No matching translator found for this URL"
\* exactly when the resolved list is empty, and "No translator could extract
\* metadata from this page" exactly when the list is not empty and every
\* candidate probed negative or extracted no record.
C11_FailureKindsDistinct ==
    pc = "done" =>
        /\ result.status \in {"success", "noMatch", "noExtract"}
        /\ (result.status = "noMatch") = (Len(matchingTranslators) = 0)
        /\ (result.status = "noExtract") =
              (Len(matchingTranslators) > 0 /\ \A c \in Cands : GaveNothing(c))

\* C11 witness: a run over two candidates ended "no translator could
\* extract": one probed negative, the other extracted no record.
C11_Witness ==
    /\ pc = "done"
    /\ result.status = "noExtract"
    /\ Len(matchingTranslators) = 2
    /\ \E c, d \in Cands :
          /\ ProbeNegative(c)
          /\ ProbePositive(d) /\ Settled(d) /\ returnedItems[d] = <<>>

\* The state part of C14: a candidate is probed only when every earlier one
\* is finished (probed negative, or probed positive and its executeDoWeb
\* promise settled), its doWeb is run only after its own positive probe, and
\* nothing beyond the loop's current entry has been touched.
InvocationOrder ==
    \A c \in Cands :
        /\ Probed(c) =>
              \A d \in 1..(c - 1) :
                  ProbeNegative(d) \/ (ProbePositive(d) /\ Settled(d))
        /\ doWeb[c] # "none" => ProbePositive(c)
        /\ c > idx => (~Probed(c) /\ doWeb[c] = "none")

\* The step part of C14: the loop moves on by one entry at a time, a probe
\* that was made is not made again, and an extraction that was started is
\* not started again.  (A pending probe settling is the end of that one
\* probe.)
InvocationStep ==
    /\ idx' \in {idx, idx + 1}
    /\ \A c \in Cands :
          /\ (Probed(c) /\ detectOutcome[c] # "pending")
                => detectOutcome'[c] = detectOutcome[c]
          /\ detectOutcome[c] = "pending"
                => detectOutcome'[c] \in {"pending"} \cup SettleOutcomes
          /\ doWeb[c] = "running" => doWeb'[c] \in {"running", "returned", "thrown"}
          /\ doWeb[c] \in {"returned", "thrown"} => doWeb'[c] = doWeb[c]

\* C14: within one run the candidates are handled one at a time in list
\* order; each is probed at most once, its extraction is invoked at most
\* once and only after its own positive probe, and no entry point of a later
\* candidate is invoked before the earlier candidate's probe and extraction
\* (grace period included) are over.
C14_InvocationsFollowStateMachine == [](InvocationOrder) /\ [][InvocationStep]_vars

\* C14 witness: the first candidate's extraction ran through its grace
\* period and gave nothing, and then the second candidate's extraction ran.
C14_Witness ==
    /\ Len(matchingTranslators) = 2
    /\ doWeb[1] = "returned"
    /\ Settled(1)
    /\ doWeb[2] \in {"returned", "thrown"}

\* ------------------------------------------------------------------------
\* The resolver: matchesTarget, findMatchingTranslators
\* ------------------------------------------------------------------------

\* Most translators in the catalog handed to findMatchingTranslators.
MaxCatalog == 3

\* URLs and target patterns are strings over a small alphabet.  A pattern is
\* a regular expression of literals with an optional leading "^"; a "(" is an
\* unterminated group, which makes `new RegExp(pattern)` throw a SyntaxError.
Urls == {<<"a">>, <<"a", "b">>, <<"b">>, <<"b", "a">>}

Targets == {<<"^", "a">>, <<"a">>, <<"^", "a", "b">>, <<"b">>,
            <<"(">>, <<"^", "a", "(">>}

Priorities == {100, 200}

\* new RegExp(pattern): does it construct (TRUE) or throw (FALSE)?
RegExpCompiles(p) == \A i \in DOMAIN p : p[i] # "("

IsPrefix(lit, u) == Len(lit) <= Len(u) /\ SubSeq(u, 1, Len(lit)) = lit

\* regex.test(url) for a pattern that compiled: an anchored pattern matches
\* at the start of the URL, an unanchored one anywhere in it.
RegExpTest(p, u) ==
    IF p # <<>> /\ p[1] = "^"
    THEN IsPrefix(Tail(p), u)
    ELSE \E k \in 0..Len(u) : IsPrefix(p, SubSeq(u, k + 1, Len(u)))

\* Mutant of MatchesTarget: no try/catch around `new RegExp`.
MatchesTargetNoCatch(u, p) ==
    [raised |-> ~RegExpCompiles(p),
     value |-> RegExpCompiles(p) /\ RegExpTest(p, u)]

\* matchesTarget(url, targetPattern): whether the call raised, and its value.
MatchesTarget(u, p) ==
    IF RegExpCompiles(p)
    THEN [raised |-> FALSE, value |-> RegExpTest(p, u)]
    ELSE [raised |-> FALSE, value |-> FALSE]

\* Mutant of ComparePriority: ascending order.
ComparePriorityAscending(a, b) == a.priority - b.priority

\* The comparator (a, b) => b.metadata.priority - a.metadata.priority.
ComparePriority(a, b) == b.priority - a.priority

\* Array.prototype.sort with a comparator: a stable sort.  x goes before the
\* first element it compares less than, after every element it ties with.
RECURSIVE InsertSorted(_, _)
InsertSorted(x, s) ==
    IF s = <<>> THEN <<x>>
    ELSE IF ComparePriority(x, Head(s)) < 0 THEN <<x>> \o s
    ELSE <<Head(s)>> \o InsertSorted(x, Tail(s))

RECURSIVE SortByPriority(_)
SortByPriority(s) ==
    IF s = <<>> THEN <<>>
    ELSE InsertSorted(s[Len(s)], SortByPriority(SubSeq(s, 1, Len(s) - 1)))

\* findMatchingTranslators(url, translators): filter, then sort.  The call
\* raises when a matchesTarget call does.
FindMatchingTranslators(u, ts) ==
    IF \E i \in DOMAIN ts : MatchesTarget(u, ts[i].target).raised
    THEN [raised |-> TRUE, list |-> <<>>]
    ELSE [raised |-> FALSE,
          list |-> SortByPriority(
                      SelectSeq(ts, LAMBDA t : MatchesTarget(u, t.target).value))]

\* Catalogs: each translator has its position as translatorID.
Catalogs ==
    UNION {{[i \in 1..n |-> [translatorID |-> i, target |-> tg[i], priority |-> pr[i]]] :
               tg \in [1..n -> Targets], pr \in [1..n -> Priorities]} :
           n \in 0..MaxCatalog}

ResolveInit ==
    /\ rpc = "start"
    /\ url \in Urls
    /\ translators \in Catalogs
    /\ matches = [raised |-> FALSE, list |-> <<>>]
    /\ targetMatch = [called |-> FALSE, target |-> <<>>, raised |-> FALSE,
                      value |-> FALSE]

\* A call matchesTarget(url, t.metadata.target) for a translator of the catalog.
CallMatchesTarget ==
    /\ rpc \in {"start", "done"}
    /\ \E i \in DOMAIN translators :
          targetMatch' = [called |-> TRUE, target |-> translators[i].target,
                          raised |-> MatchesTarget(url, translators[i].target).raised,
                          value |-> MatchesTarget(url, translators[i].target).value]
    /\ UNCHANGED <<rpc, url, translators, matches, engineVars, xpathVars, helperVars>>

\* The call findMatchingTranslators(url, translators).
CallFindMatchingTranslators ==
    /\ rpc = "start"
    /\ matches' = FindMatchingTranslators(url, translators)
    /\ rpc' = "done"
    /\ UNCHANGED <<url, translators, targetMatch, engineVars, xpathVars, helperVars>>

InitResolve == EngineIdle /\ ResolveInit /\ XPathIdle /\ HelperIdle

NextResolve ==
    \/ CallMatchesTarget
    \/ CallFindMatchingTranslators

SpecResolve == InitResolve /\ [][NextResolve]_vars

\* ------------------------------------------------------------------------
\* Properties of the resolver
\* ------------------------------------------------------------------------

\* The catalog positions whose pattern is a valid regular expression that
\* matches the URL.
MatchingIds ==
    {i \in DOMAIN translators :
        RegExpCompiles(translators[i].target) /\ RegExpTest(translators[i].target, url)}

\* C8: findMatchingTranslators returns exactly the catalog entries whose
\* pattern matches the URL, each once, by priority descending, entries of
\* equal priority in catalog order.
C8_ResolveSortedStable ==
    rpc = "done" =>
        LET out == matches.list IN
        /\ ~matches.raised
        /\ \A k \in DOMAIN out : out[k] = translators[out[k].translatorID]
        /\ {out[k].translatorID : k \in DOMAIN out} = MatchingIds
        /\ Len(out) = Cardinality(MatchingIds)
        /\ \A j, k \in DOMAIN out : j < k =>
              /\ out[j].priority >= out[k].priority
              /\ out[j].priority = out[k].priority =>
                    out[j].translatorID < out[k].translatorID

\* C8 witness: three entries match; the sort moved a later, higher-priority
\* entry to the front and kept two equal-priority entries in catalog order.
C8_Witness ==
    /\ rpc = "done"
    /\ Len(matches.list) = 3
    /\ matches.list[1].translatorID > matches.list[2].translatorID
    /\ matches.list[2].priority = matches.list[3].priority

\* C9: matchesTarget returns false and does not raise for an invalid pattern,
\* and findMatchingTranslators on a catalog that holds an invalid pattern
\* does not raise and still returns every other matching entry.
C9_InvalidPatternNeverMatches ==
    /\ (targetMatch.called /\ ~RegExpCompiles(targetMatch.target)) =>
          (~targetMatch.raised /\ ~targetMatch.value)
    /\ (rpc = "done" /\ \E i \in DOMAIN translators :
                            ~RegExpCompiles(translators[i].target)) =>
          /\ ~matches.raised
          /\ {matches.list[k].translatorID : k \in DOMAIN matches.list} = MatchingIds
          /\ \A k \in DOMAIN matches.list : RegExpCompiles(matches.list[k].target)

\* C9 witness: matchesTarget was called on an invalid pattern, and the
\* catalog holds it together with entries that match.
C9_Witness ==
    /\ rpc = "done"
    /\ targetMatch.called
    /\ ~RegExpCompiles(targetMatch.target)
    /\ Len(matches.list) >= 2

\* ------------------------------------------------------------------------
\* The XPath bridge: document.evaluate, findMatchingLinkedomNode, getNodePath
\* ------------------------------------------------------------------------

\* Most nodes (elements and text nodes) in a parsed tree.
MaxNodes == 3

\* A tree is the sequence of its nodes in document order; node i has a
\* nodeName and the index of its parentNode, 0 being the Document itself.
\* xmldom keeps the source's (lower-case) tag names, linkedom reports HTML
\* element names in upper case; a text node is named "#text" in both.
XmlNames == {"a", "b", "#text"}

LinkedomNames == {"A", "B", "#text"}

\* String.prototype.toLowerCase on a node name.
ToLowerCase(name) ==
    CASE name = "A" -> "a"
      [] name = "B" -> "b"
      [] OTHER -> name

IsElement(doc, i) == doc[i].nodeName # "#text"

RECURSIVE AncestorsOrSelf(_, _)
AncestorsOrSelf(doc, i) ==
    IF i = 0 THEN {} ELSE {i} \cup AncestorsOrSelf(doc, doc[i].parent)

\* The trees of up to MaxNodes nodes over a set of names: node 1 is the root
\* element, every other node hangs under an element that is still open when
\* it is met in document order.
TreesOfSize(names, n) ==
    {d \in [1..n -> [parent : 0..(n - 1), nodeName : names]] :
        /\ d[1].parent = 0
        /\ IsElement(d, 1)
        /\ \A i \in 2..n :
              /\ d[i].parent \in 1..(i - 1)
              /\ IsElement(d, d[i].parent)
              /\ d[i].parent \in AncestorsOrSelf(d, i - 1)}

Trees(names) == UNION {TreesOfSize(names, n) : n \in 1..MaxNodes}

\* parent.childNodes, in document order; parent 0 is the Document.
ChildNodes(doc, parent) ==
    SelectSeq([i \in DOMAIN doc |-> i], LAMBDA i : doc[i].parent = parent)

\* node.children: the element children only.
Children(doc, parent) ==
    SelectSeq(ChildNodes(doc, parent), LAMBDA i : IsElement(doc, i))

\* xpathSelect(expression, xmlDocRef) for an expression "//tag": every
\* element of that name, in document order.  The context node is not passed.
XPathSelect(expr, doc) ==
    SelectSeq([i \in DOMAIN doc |-> i], LAMBDA i : doc[i].nodeName = expr.tag)

\* Mutant of SameNameIndex: the index counts every preceding sibling.
SiblingIndex(doc, i) ==
    Cardinality({j \in 1..(i - 1) : doc[j].parent = doc[i].parent})

\* getNodePath: the index of `current` among the childNodes of its parent
\* that have its nodeName and precede it.
SameNameIndex(doc, i) ==
    Cardinality({j \in 1..(i - 1) :
                    doc[j].parent = doc[i].parent /\ doc[j].nodeName = doc[i].nodeName})

\* getNodePath(node): one step per node from the root element down to `node`
\* (the loop runs while current.parentNode exists, so the root element, whose
\* parent is the Document, has a step of its own).
RECURSIVE GetNodePath(_, _)
GetNodePath(doc, i) ==
    IF i = 0 THEN <<>>
    ELSE Append(GetNodePath(doc, doc[i].parent),
                [tagName |-> doc[i].nodeName, index |-> SameNameIndex(doc, i)])

\* One iteration of findMatchingLinkedomNode's outer loop: the children of
\* currentNode with the step's name, compared in lower case; the one at the
\* step's index becomes currentNode, and when there is none currentNode stays.
StepInto(doc, currentNode, step) ==
    LET same == SelectSeq(Children(doc, currentNode),
                          LAMBDA c : ToLowerCase(doc[c].nodeName)
                                        = ToLowerCase(step.tagName))
    IN IF step.index < Len(same) THEN same[step.index + 1] ELSE currentNode

RECURSIVE WalkPath(_, _, _)
WalkPath(doc, currentNode, path) ==
    IF path = <<>> THEN currentNode
    ELSE WalkPath(doc, StepInto(doc, currentNode, Head(path)), Tail(path))

\* linkedomDoc.documentElement || linkedomDoc
DocumentElement(doc) == IF Len(doc) > 0 THEN 1 ELSE 0

\* findMatchingLinkedomNode(linkedomDoc, xmlNode).  Every currentNode is the
\* document or an element, which have `children`, so the walk returns a node.
FindMatchingLinkedomNode(ldoc, xdoc, xmlNode) ==
    WalkPath(ldoc, DocumentElement(ldoc), GetNodePath(xdoc, xmlNode))

\* linkedomDoc.evaluate(expression, contextNode, ...): the nodes handed to
\* createXPathResult.
Evaluate(expr, ldoc, xdoc) ==
    LET xmlNodes == XPathSelect(expr, xdoc)
    IN [k \in DOMAIN xmlNodes |-> FindMatchingLinkedomNode(ldoc, xdoc, xmlNodes[k])]

Expressions == {[tag |-> "a"], [tag |-> "b"]}

\* parseHTMLDocument parsed the source twice.  The two parsers can disagree
\* on the tree below the root (unclosed and void elements, implied end tags,
\* markup inside script text), so the trees are chosen independently, with
\* the root element, the source's first tag, the same in both.
XPathInit ==
    /\ xpc = "parsed"
    /\ xmlDoc \in Trees(XmlNames)
    /\ linkedomDoc \in Trees(LinkedomNames)
    /\ xmlDoc[1].nodeName = ToLowerCase(linkedomDoc[1].nodeName)
    /\ expression = [tag |-> ""]
    /\ xresult = <<>>

\* A call doc.evaluate(expression, doc, null, 0, null).
CallEvaluate ==
    /\ xpc \in {"parsed", "evaluated"}
    /\ \E expr \in Expressions :
          /\ expression' = expr
          /\ xresult' = Evaluate(expr, linkedomDoc, xmlDoc)
    /\ xpc' = "evaluated"
    /\ UNCHANGED <<xmlDoc, linkedomDoc, engineVars, resolveVars, helperVars>>

InitXPath == EngineIdle /\ ResolveIdle /\ XPathInit /\ HelperIdle

NextXPath == CallEvaluate

SpecXPath == InitXPath /\ [][NextXPath]_vars

\* ------------------------------------------------------------------------
\* Properties of the XPath bridge
\* ------------------------------------------------------------------------

\* The node of `doc` at a StructuralPath, walking down from the Document one
\* step at a time, or 0 when some step has no child of that name and index.
RECURSIVE NodeAtPath(_, _, _)
NodeAtPath(doc, from, path) ==
    IF path = <<>> THEN from
    ELSE LET same == SelectSeq(Children(doc, from),
                               LAMBDA c : ToLowerCase(doc[c].nodeName)
                                             = ToLowerCase(Head(path).tagName))
         IN IF Head(path).index < Len(same)
            THEN NodeAtPath(doc, same[Head(path).index + 1], Tail(path))
            ELSE 0

\* The linkedom node at the same StructuralPath as xmldom node x (0: none).
Equivalent(x) == NodeAtPath(linkedomDoc, 0, GetNodePath(xmlDoc, x))

\* The two trees have the same nodes: same parents, same names up to case.
SameStructure ==
    /\ Len(xmlDoc) = Len(linkedomDoc)
    /\ \A i \in DOMAIN xmlDoc :
          /\ xmlDoc[i].parent = linkedomDoc[i].parent
          /\ xmlDoc[i].nodeName = ToLowerCase(linkedomDoc[i].nodeName)

\* C4: a matched xmldom node with no child of the recorded tag and index at
\* some step of the walk is omitted from the result, and every other matched
\* node still appears, in order: the result is what findMatchingLinkedomNode
\* gives for the matched nodes that have a positional equivalent.
C4_UnmatchedNodeOmitted ==
    xpc = "evaluated" =>
        LET matched == XPathSelect(expression, xmlDoc)
            kept == SelectSeq(matched, LAMBDA x : Equivalent(x) # 0)
        IN xresult = [k \in DOMAIN kept |->
                         FindMatchingLinkedomNode(linkedomDoc, xmlDoc, kept[k])]

\* C5: when the elements named `tag` are N siblings under one parent (and the
\* two parsers agree on the tree), "//tag" returns exactly those N linkedom
\* nodes, each once, in document order.
C5_SiblingsReturnedInOrder ==
    LET tagged == XPathSelect(expression, xmlDoc) IN
    (/\ xpc = "evaluated"
     /\ SameStructure
     /\ \A j, k \in DOMAIN tagged :
           xmlDoc[tagged[j]].parent = xmlDoc[tagged[k]].parent)
        => xresult = tagged

\* ------------------------------------------------------------------------
\* The batch-document helper: processDocuments
\* (packages/core/src/translator-sandbox.ts)
\* ------------------------------------------------------------------------

\* Longest `urls` list handed to processDocuments in the model.
MaxUrls == 2

exceptBatch ==
    <<engineVars, resolveVars, xpathVars, fetchVars, parseVars, itemVars, pathVars, moreVars>>

\* An entry of the history: URL number u (0 for the call of done) and what
\* happened: "fetch" (its fetch started), "visit" (processor was called),
\* "promise" (processor returned a pending promise), "visited" (processor
\* returned, or its promise was fulfilled), or a fault the catch block saw.
Event(u, ev) == [u |-> u, ev |-> ev]

Faults == {"resolveFault", "fetchFault", "parseFault", "visitorFault"}

\* Mutant of CatchesFault: the loop body has no try/catch.
CatchesFaultNever == FALSE

\* processDocuments: the loop body is wrapped in try { ... } catch (e) { log }.
CatchesFault == TRUE

\* Mutant of AwaitsProcessor: `processor(doc, absoluteUrl)` without await.
AwaitsProcessorNever == FALSE

\* processDocuments: `await processor(doc, absoluteUrl)`.
AwaitsProcessor == TRUE

\* A fault inside the loop body for the current URL: caught and logged, the
\* loop goes on; uncaught, it rejects the promise processDocuments returned.
LoopFault(kind) ==
    /\ blog' = Append(blog, Event(bidx', kind))
    /\ bpc' = IF CatchesFault THEN "loop" ELSE "rejected"

BatchInit ==
    /\ bpc = "loop"
    /\ urls \in {[i \in 1..n |-> i] : n \in 0..MaxUrls}
    /\ hasDone \in BOOLEAN
    /\ bidx = 0
    /\ pending = {}
    /\ blog = <<>>
    /\ doneCalls = 0

\* The loop takes the next URL: resolveUrl(docUrl), which may throw (new URL
\* on a malformed URL), then fetch(absoluteUrl) is started.
StartUrl ==
    /\ bpc = "loop"
    /\ bidx < Len(urls)
    /\ bidx' = bidx + 1
    /\ \/ LoopFault("resolveFault")
       \/ /\ blog' = Append(blog, Event(bidx', "fetch"))
          /\ bpc' = "fetching"
    /\ UNCHANGED <<urls, hasDone, pending, doneCalls, exceptBatch>>

\* `await fetch(...).then(r => r.text())` settles; on success the document is
\* parsed and processor is called, up to `await processor(...)`.
FetchSettles ==
    /\ bpc = "fetching"
    /\ bidx' = bidx
    /\ \/ LoopFault("fetchFault") /\ pending' = pending
       \/ LoopFault("parseFault") /\ pending' = pending
       \/ /\ blog' = blog \o <<Event(bidx, "visit"), Event(bidx, "visitorFault")>>
          /\ bpc' = IF CatchesFault THEN "loop" ELSE "rejected"
          /\ pending' = pending
       \/ /\ blog' = blog \o <<Event(bidx, "visit"), Event(bidx, "visited")>>
          /\ bpc' = "loop"
          /\ pending' = pending
       \/ /\ blog' = blog \o <<Event(bidx, "visit"), Event(bidx, "promise")>>
          /\ bpc' = IF AwaitsProcessor THEN "visiting" ELSE "loop"
          /\ pending' = pending \cup {bidx}
    /\ UNCHANGED <<urls, hasDone, doneCalls, exceptBatch>>

\* The promise an asynchronous processor returned settles: fulfilled, or
\* rejected (a fault the awaiting loop body catches).
VisitorSettles ==
    /\ \E u \in pending, ok \in BOOLEAN :
        /\ pending' = pending \ {u}
        /\ blog' = Append(blog, Event(u, IF ok THEN "visited" ELSE "visitorFault"))
        /\ bpc' = IF bpc = "visiting" /\ u = bidx
                  THEN (IF ok \/ CatchesFault THEN "loop" ELSE "rejected")
                  ELSE bpc
    /\ UNCHANGED <<urls, hasDone, bidx, doneCalls, exceptBatch>>

\* The loop is over: `if (done) { done(); }`, and the promise is fulfilled.
Finish ==
    /\ bpc = "loop"
    /\ bidx = Len(urls)
    /\ bpc' = "done"
    /\ doneCalls' = IF hasDone THEN doneCalls + 1 ELSE doneCalls
    /\ blog' = IF hasDone THEN Append(blog, Event(0, "done")) ELSE blog
    /\ UNCHANGED <<urls, hasDone, bidx, pending, exceptBatch>>

InitBatch ==
    /\ EngineIdle /\ ResolveIdle /\ XPathIdle
    /\ BatchInit /\ FetchIdle /\ ParseIdle /\ ItemIdle /\ PathIdle /\ MoreIdle

NextBatch ==
    \/ StartUrl
    \/ FetchSettles
    \/ VisitorSettles
    \/ Finish

SpecBatch == InitBatch /\ [][NextBatch]_vars

\* The event loop runs every continuation that is ready; a fetch that was
\* started settles, and so does the promise a processor returned.
SpecBatchFair ==
    /\ SpecBatch
    /\ WF_vars(StartUrl)
    /\ WF_vars(FetchSettles)
    /\ WF_vars(VisitorSettles)
    /\ WF_vars(Finish)

\* URL u was handled before position m of the history: its processor had
\* finished, or a fault had ended its turn.
HandledBefore(u, m) ==
    \E k \in 1..(m - 1) :
        blog[k].u = u /\ blog[k].ev \in ({"visited"} \cup Faults)

\* C12: processDocuments handles the URLs one at a time in list order: what
\* happens to the URLs happens in list order, a fetch starts only when every
\* earlier URL has been handled (fetched, parsed and its processor finished,
\* or ended by a fault), and no processor of an earlier URL is still running.
C12_BatchSequential ==
    /\ \A k, m \in DOMAIN blog :
          (k < m /\ blog[m].u # 0) => (blog[k].u # 0 /\ blog[k].u <= blog[m].u)
    /\ \A m \in DOMAIN blog :
          blog[m].ev = "fetch" =>
              \A u \in 1..(blog[m].u - 1) : HandledBefore(u, m)
    /\ \A u \in pending : u = bidx /\ bpc = "visiting"

\* C12 witness: the first URL's processor returned a promise, the promise
\* was fulfilled, and then the second URL's fetch started.
C12_Witness ==
    \E k, m, n \in DOMAIN blog :
        /\ k < m /\ m < n
        /\ blog[k] = Event(1, "promise")
        /\ blog[m] = Event(1, "visited")
        /\ blog[n] = Event(2, "fetch")

\* The state part of C13.
DoneOnceAfterAll ==
    /\ bpc # "rejected"
    /\ doneCalls <= 1
    /\ doneCalls = Cardinality({k \in DOMAIN blog : blog[k].ev = "done"})
    /\ (doneCalls = 1) = (hasDone /\ bpc = "done")
    /\ bpc = "done" =>
          /\ \A u \in DOMAIN urls : HandledBefore(u, Len(blog) + 1)
          /\ hasDone => blog[Len(blog)] = Event(0, "done")
    /\ \A u \in DOMAIN urls :
          Cardinality({k \in DOMAIN blog :
                          blog[k].u = u /\ blog[k].ev \in ({"visited"} \cup Faults)}) <= 1

PageUrls == {<<"https://h", "/", "a", "/", "b">>,
             <<"https://h", "/", "a", "/">>,
             <<"https://h", "/", "b">>}

\* The URLs a translator passes to a helper: root-relative, "./"-relative,
\* "../"-relative, a bare relative path, query-only, and absolute ones.
RequestUrls == {<<"/", "x">>,
                <<".", "/", "x">>,
                <<"..", "/", "x">>,
                <<"x">>,
                <<"?", "q">>,
                <<"https://g", "/", "x">>,
                <<"https://h", "/", "a", "/", "x">>}

Origins == {"https://h", "https://g"}

IsAbsolute(u) == Len(u) > 0 /\ u[1] \in Origins

\* String.prototype.startsWith on token sequences.
StartsWith(u, prefix) ==
    /\ Len(u) >= Len(prefix)
    /\ SubSeq(u, 1, Len(prefix)) = prefix

\* The path of an absolute URL without its query: the tokens after the
\* origin up to a "?".
RECURSIVE UpToQuery(_)
UpToQuery(u) ==
    IF u = <<>> \/ Head(u) = "?" THEN <<>> ELSE <<Head(u)>> \o UpToQuery(Tail(u))

\* A path without its last segment: the tokens up to and with the last "/".
RECURSIVE DirOf(_)
DirOf(path) ==
    IF path = <<>> THEN <<>>
    ELSE IF path[Len(path)] = "/" THEN path
    ELSE DirOf(SubSeq(path, 1, Len(path) - 1))

\* The directory above dir (dir ends with "/"); the root stays the root.
ParentDir(dir) ==
    IF Len(dir) <= 1 THEN <<"/">> ELSE DirOf(SubSeq(dir, 1, Len(dir) - 1))

\* URL parsing of a path-relative reference: "." and ".." segments are
\* applied to the directory, names are appended.
RECURSIVE ApplySegments(_, _)
ApplySegments(dir, rel) ==
    IF rel = <<>> THEN dir
    ELSE IF Head(rel) = "/" THEN ApplySegments(dir, Tail(rel))
    ELSE IF Head(rel) = "." THEN ApplySegments(dir, Tail(rel))
    ELSE IF Head(rel) = ".." THEN ApplySegments(ParentDir(dir), Tail(rel))
    ELSE IF Head(rel) = "?" THEN dir \o rel
    ELSE IF Len(rel) > 1 /\ rel[2] = "/"
         THEN ApplySegments(dir \o <<Head(rel), "/">>, Tail(Tail(rel)))
         ELSE ApplySegments(dir \o <<Head(rel)>>, Tail(rel))

\* new URL(requestUrl, base).href for a valid absolute base.
NewURL(u, base) ==
    LET origin == base[1]
        path   == UpToQuery(Tail(base))
    IN  IF IsAbsolute(u) THEN u
        ELSE IF StartsWith(u, <<"/">>) THEN <<origin>> \o u
        ELSE IF StartsWith(u, <<"?">>) THEN <<origin>> \o path \o u
        ELSE <<origin>> \o ApplySegments(DirOf(path), u)

\* createSandboxRequestFunctions: resolveUrl(requestUrl); the wrappers of
\* doGet and doPost in createSandbox repeat the same test.
ResolveUrl(u, page) ==
    IF StartsWith(u, <<"/">>) \/ StartsWith(u, <<".", "/">>)
    THEN NewURL(u, page)
    ELSE u

FetchInit ==
    /\ fpc = "ready"
    /\ pageUrl \in PageUrls
    /\ helper = "none"
    /\ requestUrl = <<>>
    /\ fetchedUrl = <<>>

\* A helper is called with URL u: the URL it passes to fetch.
CallHelper(h, u) ==
    /\ fpc = "ready"
    /\ helper' = h
    /\ requestUrl' = u
    /\ fetchedUrl' = ResolveUrl(u, pageUrl)
    /\ UNCHANGED <<fpc, pageUrl, engineVars, resolveVars, xpathVars, batchVars,
                   parseVars, itemVars, pathVars, moreVars>>

Request == \E u \in RequestUrls : CallHelper("request", u)

RequestText == \E u \in RequestUrls : CallHelper("requestText", u)

RequestJSON == \E u \in RequestUrls : CallHelper("requestJSON", u)

RequestDocument == \E u \in RequestUrls : CallHelper("requestDocument", u)

ProcessDocumentsUrl == \E u \in RequestUrls : CallHelper("processDocuments", u)

DoGet == \E u \in RequestUrls : CallHelper("doGet", u)

DoPost == \E u \in RequestUrls : CallHelper("doPost", u)

InitFetch ==
    /\ EngineIdle /\ ResolveIdle /\ XPathIdle
    /\ BatchIdle /\ FetchInit /\ ParseIdle /\ ItemIdle /\ PathIdle /\ MoreIdle

NextFetch ==
    \/ Request
    \/ RequestText
    \/ RequestJSON
    \/ RequestDocument
    \/ ProcessDocumentsUrl
    \/ DoGet
    \/ DoPost

SpecFetch == InitFetch /\ [][NextFetch]_vars

\* C15: whatever helper is called, the URL handed to the network is the
\* request URL resolved against the page URL when it is relative (in any
\* form), and the request URL itself when it is absolute.
C15_RelativeUrlsResolved ==
    helper # "none" =>
        /\ IsAbsolute(fetchedUrl)
        /\ fetchedUrl = IF IsAbsolute(requestUrl)
                        THEN requestUrl
                        ELSE NewURL(requestUrl, pageUrl)

\* ------------------------------------------------------------------------
\* The descriptor parser: parseTranslatorMetadata
\* (src/src/translator-loader.ts)
\* ------------------------------------------------------------------------

\* JSON values: strings, numbers, and undefined for a key that is absent.
Undefined == [type |-> "undefined", str |-> "", num |-> 0]

Str(s) == [type |-> "string", str |-> s, num |-> 0]

Num(n) == [type |-> "number", str |-> "", num |-> n]

\* JavaScript truthiness of a value: `!v` is its negation.
Truthy(v) ==
    \/ v.type = "string" /\ v.str # ""
    \/ v.type = "number" /\ v.num # 0

\* A source text is a sequence of tokens: blanks ("ws"), line ends ("nl"),
\* braces, commas, a `"key": value` member ("field"), the `"key":` before a
\* nested object ("key"), text that is no JSON ("junk") and translator code.
Tok(t) == [t |-> t, k |-> "", v |-> Undefined]

Field(k, v) == [t |-> "field", k |-> k, v |-> v]

IsSpace(tok) == tok.t \in {"ws", "nl"}

\* The keys the descriptor needs, in the order translators write them.
KeyOrder == <<"translatorID", "label", "target", "priority", "translatorType">>

Keys == Range(KeyOrder)

\* The values a header of the model gives each key: absent, well typed,
\* falsy, or of the wrong type.
KeyValues ==
    [translatorID   |-> {Undefined, Str("id"), Str(""), Num(7)},
     label          |-> {Undefined, Str("L"), Num(7)},
     target         |-> {Undefined, Str("^a"), Num(7)},
     priority       |-> {Undefined, Num(100), Num(0), Str("high")},
     translatorType |-> {Undefined, Num(4), Num(0), Str("web")}]

\* The type a key's value must have.
KeyType ==
    [translatorID |-> "string", label |-> "string", target |-> "string",
     priority |-> "number", translatorType |-> "number"]

\* Headers: the value of each key and where a nested object (configOptions)
\* stands, if there is one: among the members or as the last member.
Headers ==
    {[kind |-> "json", vals |-> vs, nested |-> n] :
        vs \in {f \in [Keys -> UNION {KeyValues[k] : k \in Keys}] :
                   \A k \in Keys : f[k] \in KeyValues[k]},
        n \in {"none", "middle", "last"}}

NoHeader == [kind |-> "none", vals |-> [k \in Keys |-> Undefined], nested |-> "none"]

\* The members of a pretty-printed header, one per line.
RECURSIVE FieldTokens(_, _)
FieldTokens(h, i) ==
    IF i > Len(KeyOrder) THEN <<>>
    ELSE (IF h.vals[KeyOrder[i]] = Undefined THEN <<>>
          ELSE <<Field(KeyOrder[i], h.vals[KeyOrder[i]]), Tok(","), Tok("nl")>>)
         \o FieldTokens(h, i + 1)

NestedTokens ==
    <<[t |-> "key", k |-> "configOptions", v |-> Undefined],
      Tok("{"), Tok("nl"), Field("x", Num(1)), Tok("nl"), Tok("}")>>

\* The text of a header, as a translator file has it.
HeaderText(h) ==
    <<Tok("{"), Tok("nl")>>
    \o (IF h.nested = "middle" THEN NestedTokens \o <<Tok(","), Tok("nl")>> ELSE <<>>)
    \o FieldTokens(h, 1)
    \o (IF h.nested = "last" THEN NestedTokens \o <<Tok("nl")>> ELSE <<>>)
    \o <<Tok("}")>>

\* What stands before and after the header.
Leads == {<<>>, <<Tok("nl")>>, <<Tok("ws"), Tok("nl"), Tok("ws")>>}

Trails == {<<>>, <<Tok("ws")>>, <<Tok("nl")>>, <<Tok("ws"), Tok("nl")>>,
           <<Tok("nl"), Tok("nl"), Tok("code"), Tok("nl")>>, <<Tok("ws"), Tok("code")>>}

\* Texts without a JSON header: empty, blank, code only, braces around text
\* that is no JSON, an unclosed brace.
OtherTexts ==
    {<<>>, <<Tok("nl")>>, <<Tok("code"), Tok("nl")>>,
     <<Tok("{"), Tok("junk"), Tok("}"), Tok("nl")>>,
     <<Tok("{"), Tok("nl"), Field("translatorID", Str("id")), Tok("nl")>>,
     <<Tok("code"), Tok("{"), Tok("}"), Tok("nl")>>}

\* --- code.match(/^\s*({[\s\S]*?})\s*\n/)

\* The number of space tokens at the start of a text.
RECURSIVE LeadingSpace(_)
LeadingSpace(text) ==
    IF text # <<>> /\ IsSpace(Head(text)) THEN 1 + LeadingSpace(Tail(text)) ELSE 0

\* `\s*\n` matches at position i: a run of spaces that holds a line end.
SpaceThenNewline(text, i) ==
    \E j \in i..Len(text) :
        /\ text[j].t = "nl"
        /\ \A m \in i..j : IsSpace(text[m])

\* `})\s*\n`: the capture can end at position k.
HeaderEndsAt(text, k) == text[k].t = "}" /\ SpaceThenNewline(text, k + 1)

\* The match: none, or the capture group, which the lazy quantifier ends at
\* the first closing brace a line end follows.
RegexMatch(text) ==
    LET start == LeadingSpace(text) + 1
        ends  == {k \in (start + 1)..Len(text) : HeaderEndsAt(text, k)}
    IN  IF start > Len(text) \/ text[start].t # "{" \/ ends = {}
        THEN [found |-> FALSE, group |-> <<>>]
        ELSE [found |-> TRUE,
              group |-> SubSeq(text, start, CHOOSE k \in ends : \A m \in ends : k <= m)]

\* --- JSON.parse(match[1])

\* Open braces minus closed braces before position i.
DepthAt(toks, i) ==
    Cardinality({j \in 1..(i - 1) : toks[j].t = "{"})
    - Cardinality({j \in 1..(i - 1) : toks[j].t = "}"})

\* Is the capture a JSON object?  Its braces balance, every nested object
\* follows a key, and it holds nothing but members, commas and blanks.
JsonWellFormed(toks) ==
    /\ Len(toks) >= 2
    /\ toks[1].t = "{"
    /\ toks[Len(toks)].t = "}"
    /\ DepthAt(toks, Len(toks) + 1) = 0
    /\ \A i \in 2..Len(toks) : DepthAt(toks, i) >= 1
    /\ \A i \in DOMAIN toks :
          /\ toks[i].t \notin {"junk", "code"}
          /\ toks[i].t = "key" => (i < Len(toks) /\ toks[i + 1].t = "{")
          /\ (toks[i].t = "{" /\ i > 1) => toks[i - 1].t = "key"

\* The object JSON.parse returns: the value of each key among the members of
\* the outer object (the last one when a key is repeated).
JsonObject(toks) ==
    [k \in Keys |->
        LET at == {i \in DOMAIN toks :
                      toks[i].t = "field" /\ toks[i].k = k /\ DepthAt(toks, i) = 1}
        IN  IF at = {} THEN Undefined
            ELSE toks[CHOOSE i \in at : \A j \in at : j <= i].v]

NullResult == [raised |-> FALSE, isNull |-> TRUE, fields |-> [k \in Keys |-> Undefined]]

\* Mutant of OnParseError: no try/catch around the body.
OnParseErrorRaise ==
    [raised |-> TRUE, isNull |-> FALSE, fields |-> [k \in Keys |-> Undefined]]

\* parseTranslatorMetadata: catch (e) { console.error(...); return null; }
OnParseError == NullResult

\* parseTranslatorMetadata: the validation of the parsed object.
HasRequiredFields(obj) ==
    /\ Truthy(obj["translatorID"])
    /\ Truthy(obj["label"])
    /\ Truthy(obj["target"])
    /\ obj["translatorType"] # Undefined

ParseTranslatorMetadata(text) ==
    LET match == RegexMatch(text)
    IN  IF ~match.found THEN NullResult
        ELSE IF ~JsonWellFormed(match.group) THEN OnParseError
        ELSE IF ~HasRequiredFields(JsonObject(match.group)) THEN NullResult
        ELSE [raised |-> FALSE, isNull |-> FALSE, fields |-> JsonObject(match.group)]

ParseInit ==
    /\ ppc = "start"
    /\ \/ /\ header \in Headers
          /\ code \in {l \o HeaderText(header) \o t : l \in Leads, t \in Trails}
       \/ /\ header = NoHeader
          /\ code \in OtherTexts
    /\ metadata = NullResult

CallParseTranslatorMetadata ==
    /\ ppc = "start"
    /\ ppc' = "done"
    /\ metadata' = ParseTranslatorMetadata(code)
    /\ UNCHANGED <<header, code, engineVars, resolveVars, xpathVars, batchVars,
                   fetchVars, itemVars, pathVars, moreVars>>

InitParse ==
    /\ EngineIdle /\ ResolveIdle /\ XPathIdle
    /\ BatchIdle /\ FetchIdle /\ ParseInit /\ ItemIdle /\ PathIdle /\ MoreIdle

NextParse == CallParseTranslatorMetadata

SpecParse == InitParse /\ [][NextParse]_vars

\* --- properties of the parser

\* A required key of the header is missing or has the wrong type.
KeyMissingOrMistyped(h) ==
    \E k \in Keys : h.vals[k].type # KeyType[k]

\* The text is malformed: it has no header, or its header lacks a required
\* key or gives one the wrong type or an empty string.
Malformed(h) ==
    \/ h.kind = "none"
    \/ KeyMissingOrMistyped(h)
    \/ \E k \in Keys : KeyType[k] = "string" /\ ~Truthy(h.vals[k])

C17_MissingOrMistypedKeyRejected ==
    (ppc = "done" /\ header.kind = "json" /\ KeyMissingOrMistyped(header))
        => metadata.isNull

\* C18: for a text that starts, after optional blanks, with a JSON header
\* that holds every required key with a value of its type (strings not
\* empty), whatever follows the header, the parser returns the header's
\* translatorID, label, target and priority.
C18_ValidHeaderRoundTrips ==
    (ppc = "done" /\ header.kind = "json" /\ ~Malformed(header)) =>
        /\ ~metadata.isNull
        /\ \A k \in Keys : metadata.fields[k] = header.vals[k]

\* ------------------------------------------------------------------------
\* One Item, its toJSON and the record handed over on complete()
\* (packages/core/src/item.ts)
\* ------------------------------------------------------------------------

\* Most entries one array field of the Item gets in the model.
MaxEntries == 1

exceptItem ==
    <<engineVars, resolveVars, xpathVars, batchVars, fetchVars, parseVars, pathVars, moreVars>>

\* The fields of an Item that hold a string or nothing, and those that hold
\* an array (`creators: Creator[] = []` and the like).
ScalarFields == {"title", "url", "accessDate"}

ArrayFields == {"creators", "tags", "notes", "attachments"}

\* The array each array field is initialized with: a reference into heap.
ArrayRef == [creators |-> 1, tags |-> 2, notes |-> 3, attachments |-> 4]

\* new Item(itemType), with a completion callback set.
NewItem ==
    [b |-> NewBuilder(1, "doWeb"),
     scalars |-> [f \in ScalarFields |-> "undefined"],
     arrays |-> ArrayRef]

\* Item.toJSON(): `obj[key] = this[key]` for every defined key but
\* `completed` and `_onComplete`: strings are copied, an array field of the
\* object is the Item's array itself.
ToJSON(it) == [scalars |-> it.scalars, arrays |-> it.arrays]

\* What an object handed over holds, arrays looked up.
Contents(obj) ==
    [scalars |-> obj.scalars, arrays |-> [f \in ArrayFields |-> heap[obj.arrays[f]]]]

ItemInit ==
    /\ item = NewItem
    /\ heap = [r \in 1..4 |-> <<>>]
    /\ handed = <<>>
    /\ handedValue = <<>>

\* !value for a field that holds a string or nothing: undefined and the
\* empty string are falsy.
Falsy(v) == v \in {"undefined", ""}

\* Mutant of SetsAccessDate: the date is set whenever there is a url.
SetsAccessDateWithUrl(it) == ~Falsy(it.scalars["url"])

\* complete(): `if (!this.accessDate && this.url)`.
SetsAccessDate(it) ==
    Falsy(it.scalars["accessDate"]) /\ ~Falsy(it.scalars["url"])

\* Translator code assigns a field: item.title = ..., item.url = ...
AssignField ==
    /\ \E f \in ScalarFields, v \in {"", "v1"} :
          item' = [item EXCEPT !.scalars[f] = v]
    /\ UNCHANGED <<heap, handed, handedValue, exceptItem>>

\* this.<field>.push(entry), for the field's current array.
Push(f) ==
    /\ Len(heap[item.arrays[f]]) < MaxEntries
    /\ heap' = [heap EXCEPT ![item.arrays[f]] = Append(@, "entry")]

\* Item.addCreator, or translator code pushing onto item.creators.
AddCreator ==
    /\ Push("creators")
    /\ UNCHANGED <<item, handed, handedValue, exceptItem>>

\* Item.addTag.
AddTag ==
    /\ Push("tags")
    /\ UNCHANGED <<item, handed, handedValue, exceptItem>>

\* Item.addNote.
AddNote ==
    /\ Push("notes")
    /\ UNCHANGED <<item, handed, handedValue, exceptItem>>

\* Item.addAttachment.
AddAttachment ==
    /\ Push("attachments")
    /\ UNCHANGED <<item, handed, handedValue, exceptItem>>

\* Item.complete(): the guard, the access date, the callback with toJSON().
Complete ==
    /\ item.b.completeCalls < MaxCompleteCalls
    /\ LET dated == IF ~item.b.completed /\ SetsAccessDate(item)
                    THEN [item EXCEPT !.scalars["accessDate"] = "today"]
                    ELSE item
       IN  /\ item' = [dated EXCEPT !.b = CompleteItem(item.b)]
           /\ IF CompleteRunsCallback(item.b)
              THEN /\ handed' = Append(handed, ToJSON(dated))
                   /\ handedValue' = Append(handedValue, Contents(ToJSON(dated)))
              ELSE UNCHANGED <<handed, handedValue>>
    /\ UNCHANGED <<heap, exceptItem>>

InitItem ==
    /\ EngineIdle /\ ResolveIdle /\ XPathIdle
    /\ BatchIdle /\ FetchIdle /\ ParseIdle /\ ItemInit /\ PathIdle /\ MoreIdle

NextItem ==
    \/ AssignField
    \/ AddCreator
    \/ AddTag
    \/ AddNote
    \/ AddAttachment
    \/ Complete

SpecItem == InitItem /\ [][NextItem]_vars

\* C19: the record handed over on finalization is an immutable snapshot:
\* whatever is done to the Item afterwards (assigning fields, adding
\* creators, tags, notes or attachments), the record holds what it held when
\* it was handed over.
C19_SnapshotImmutable ==
    \A i \in DOMAIN handed : Contents(handed[i]) = handedValue[i]

\* C27 (step): what a complete() call does to accessDate.  On the call that
\* hands the record over, a url and no accessDate give the record today's
\* date, an accessDate already there is kept, and without a url accessDate
\* stays as it was; the Item holds the same date as the record.  A later
\* complete() call changes no field.
AccessDateStep ==
    LET had == item.scalars["accessDate"]
        link == item.scalars["url"]
    IN  /\ Len(handed') > Len(handed) =>
              LET rec == handed'[Len(handed')]
              IN  /\ (link \notin {"undefined", ""} /\ had \in {"undefined", ""})
                        => rec.scalars["accessDate"] = "today"
                  /\ had \notin {"undefined", ""}
                        => rec.scalars["accessDate"] = had
                  /\ link \in {"undefined", ""}
                        => rec.scalars["accessDate"] = had
                  /\ item'.scalars["accessDate"] = rec.scalars["accessDate"]
        /\ (item.b.completed /\ item'.b.completeCalls > item.b.completeCalls)
              => item'.scalars = item.scalars

\* C27: the first finalization of a record that has a url and no accessDate
\* sets accessDate to the current date before the snapshot is taken; an
\* accessDate already set is never overwritten, and a record without a url
\* gets no accessDate.
C27_AccessDateOnFirstComplete == [][AccessDateStep]_vars

\* C27 witness: a record with a url was handed over carrying today's date.
C27_Witness ==
    /\ handed # <<>>
    /\ handedValue[1].scalars["url"] = "v1"
    /\ handedValue[1].scalars["accessDate"] = "today"

\* ------------------------------------------------------------------------
\* getNodePath on larger trees (packages/node dom-utils)
\* ------------------------------------------------------------------------

\* Most nodes of a tree getNodePath is called on here.
MaxPathNodes == 4

PathInit ==
    /\ pathDoc \in UNION {TreesOfSize(XmlNames, n) : n \in 1..MaxPathNodes}
    /\ pathNode = 0
    /\ nodePath = <<>>

\* getNodePath(node) is called on an element of the tree.
CallGetNodePath ==
    /\ \E i \in DOMAIN pathDoc :
          /\ IsElement(pathDoc, i)
          /\ pathNode' = i
          /\ nodePath' = GetNodePath(pathDoc, i)
    /\ UNCHANGED <<pathDoc, engineVars, resolveVars, xpathVars, batchVars,
                   fetchVars, parseVars, itemVars, moreVars>>

InitPath ==
    /\ EngineIdle /\ ResolveIdle /\ XPathIdle
    /\ BatchIdle /\ FetchIdle /\ ParseIdle /\ ItemIdle /\ PathInit /\ MoreIdle

NextPath == CallGetNodePath

SpecPath == InitPath /\ [][NextPath]_vars

\* The nodes from the root element down to node i.
RECURSIVE Lineage(_, _)
Lineage(doc, i) ==
    IF i = 0 THEN <<>> ELSE Append(Lineage(doc, doc[i].parent), i)

\* The siblings of node i (itself included) that have its tag name, in
\* document order.
SameTagSiblings(doc, i) ==
    SelectSeq(ChildNodes(doc, doc[i].parent),
              LAMBDA c : doc[c].nodeName = doc[i].nodeName)

\* C20: the path has one step per node from the root element down to the
\* node; each step holds that node's tag name and its zero-based position
\* among the same-tag siblings in document order, so that text nodes and
\* differently tagged siblings do not count.
C20_StepIndexAmongSameTagSiblings ==
    pathNode # 0 =>
        LET line == Lineage(pathDoc, pathNode)
        IN  /\ Len(nodePath) = Len(line)
            /\ \A k \in DOMAIN line :
                  /\ nodePath[k].tagName = pathDoc[line[k]].nodeName
                  /\ nodePath[k].index \in 0..(Len(SameTagSiblings(pathDoc, line[k])) - 1)
                  /\ SameTagSiblings(pathDoc, line[k])[nodePath[k].index + 1] = line[k]

\* C20 witness: the path of the second of two same-tag siblings that have a
\* text node between them: its last step has index 1.
C20_Witness ==
    /\ pathNode # 0
    /\ nodePath[Len(nodePath)].index = 1
    /\ \E t \in DOMAIN pathDoc :
          /\ pathDoc[t].nodeName = "#text"
          /\ pathDoc[t].parent = pathDoc[pathNode].parent
          /\ t < pathNode
          /\ \E e \in 1..(t - 1) :
                /\ pathDoc[e].parent = pathDoc[pathNode].parent
                /\ pathDoc[e].nodeName = pathDoc[pathNode].nodeName

\* ------------------------------------------------------------------------
\* The results of path queries: createXPathResult, ZU.xpath
\* (packages/node dom-utils, packages/core/src/item.ts)
\* ------------------------------------------------------------------------

\* Most XPathResult objects alive at once.
MaxQueries == 2

\* Most iterateNext calls made on a result after it ran out of nodes.
MaxSpare == 2

exceptIter ==
    <<engineVars, resolveVars, batchVars, fetchVars, parseVars, itemVars, pathVars,
      runVars, topVars>>

\* JavaScript's null, as iterateNext and snapshotItem return it; nodes are
\* the positive indexes of the linkedom tree.
Null == -1

\* The expressions of the queries: "//tag" and the relative ".//tag".  The
\* bridge hands either one to xpathSelect with the xmldom Document as its
\* context, where both select every element named tag (XPathSelect).
QueryExpressions == {[tag |-> t, relative |-> r] : t \in {"a", "b"}, r \in BOOLEAN}

\* The context nodes a query can be given: the Document (0) or an element.
ContextNodes(doc) == {0} \cup {i \in DOMAIN doc : IsElement(doc, i)}

\* currentIndex++
NextIndex(currentIndex) == currentIndex + 1

\* nodes[index] || null: a node is an object, so it is truthy; an index
\* outside the array reads undefined.
NodeOrNull(nodes, index) ==
    IF index \in 0..(Len(nodes) - 1) THEN nodes[index + 1] ELSE Null

\* createXPathResult(nodes): the object and the currentIndex of its closure.
CreateXPathResult(nodes) ==
    [nodes |-> nodes,
     currentIndex |-> 0,
     singleNodeValue |-> NodeOrNull(nodes, 0),
     snapshotLength |-> Len(nodes)]

\* Mutant of OwnIndex: one currentIndex serves every result.
SharedIndex(qs, q) == DOMAIN qs

\* The results whose position an iterateNext call on result q moves:
\* currentIndex is a `let` of the createXPathResult call that made q.
OwnIndex(qs, q) == {q}

\* Mutant of IterateNextValue: the first node on every call.
IterateNextFirst(r) == NodeOrNull(r.nodes, 0)

\* result.iterateNext(): what it returns.
IterateNextValue(r) ==
    IF r.currentIndex < Len(r.nodes) THEN r.nodes[r.currentIndex + 1] ELSE Null

\* ZU.xpath's loop: `item = result.iterateNext(); while (item) { push }`
\* on a result at position currentIndex.
RECURSIVE Drain(_, _)
Drain(nodes, currentIndex) ==
    LET next == NodeOrNull(nodes, currentIndex)
    IN IF next = Null THEN <<>>
       ELSE <<next>> \o Drain(nodes, NextIndex(currentIndex))

\* ZU.xpath(node, xpath) where doc.evaluate is installed.
ZUXPath(node, expr, ldoc, xdoc) ==
    Drain(CreateXPathResult(Evaluate(expr, ldoc, xdoc)).nodes, 0)

\* The page was parsed by both parsers, which agree on its tree here; its
\* root element is an A (the queries name both tags).
IterInit ==
    /\ xpc = "parsed"
    /\ linkedomDoc \in {d \in Trees(LinkedomNames) : d[1].nodeName = "A"}
    /\ xmlDoc = [i \in DOMAIN linkedomDoc |->
                    [parent |-> linkedomDoc[i].parent,
                     nodeName |-> ToLowerCase(linkedomDoc[i].nodeName)]]
    /\ expression = [tag |-> ""]
    /\ xresult = <<>>
    /\ queries = <<>>
    /\ yielded = <<>>
    /\ access = NoAccess

\* doc.evaluate(expression, contextNode, null, 0, null): a new result.  The
\* function does not read contextNode.
MakeResult(exprs) ==
    /\ \E expr \in exprs, node \in ContextNodes(linkedomDoc) :
          queries' = Append(queries,
                            [expression |-> expr,
                             result |-> CreateXPathResult(
                                           Evaluate(expr, linkedomDoc, xmlDoc))])
    /\ yielded' = Append(yielded, <<>>)
    /\ UNCHANGED <<access, xpathVars, exceptIter>>

\* The first doc.evaluate call of a script.
FirstEvaluate ==
    /\ queries = <<>>
    /\ MakeResult(QueryExpressions)

\* A doc.evaluate call while earlier results are still in use.
DocEvaluate ==
    /\ Len(queries) < MaxQueries
    /\ MakeResult({e \in QueryExpressions : ~e.relative})

\* result.iterateNext() on result q.
IterateNext ==
    /\ \E q \in DOMAIN queries :
          /\ Len(yielded[q]) < Len(queries[q].result.nodes) + MaxSpare
          /\ yielded' = [yielded EXCEPT
                            ![q] = Append(@, IterateNextValue(queries[q].result))]
          /\ queries' =
                [p \in DOMAIN queries |->
                    IF /\ p \in OwnIndex(queries, q)
                       /\ queries[q].result.currentIndex < Len(queries[q].result.nodes)
                    THEN [queries[p] EXCEPT
                             !.result.currentIndex = NextIndex(@)]
                    ELSE queries[p]]
    /\ UNCHANGED <<access, xpathVars, exceptIter>>

\* result.snapshotItem(index) on result q.
SnapshotItem ==
    /\ \E q \in DOMAIN queries, index \in (-1)..MaxNodes :
          access' = [op |-> "snapshotItem", q |-> q, index |-> index,
                     expression |-> queries[q].expression,
                     value |-> <<NodeOrNull(queries[q].result.nodes, index)>>]
    /\ UNCHANGED <<queries, yielded, xpathVars, exceptIter>>

\* A read of result.singleNodeValue.
SingleNodeValue ==
    /\ \E q \in DOMAIN queries :
          access' = [op |-> "singleNodeValue", q |-> q, index |-> 0,
                     expression |-> queries[q].expression,
                     value |-> <<queries[q].result.singleNodeValue>>]
    /\ UNCHANGED <<queries, yielded, xpathVars, exceptIter>>

\* ZU.xpath(node, xpath): a result of its own, read to its end.
CallZUXPath ==
    /\ \E expr \in QueryExpressions, node \in ContextNodes(linkedomDoc) :
          access' = [op |-> "xpath", q |-> node, index |-> 0, expression |-> expr,
                     value |-> ZUXPath(node, expr, linkedomDoc, xmlDoc)]
    /\ UNCHANGED <<queries, yielded, xpathVars, exceptIter>>

InitIter ==
    /\ EngineIdle /\ ResolveIdle /\ IterInit
    /\ BatchIdle /\ FetchIdle /\ ParseIdle /\ ItemIdle /\ PathIdle /\ RunsIdle /\ TopIdle

\* One result and every way to read it.
NextResult ==
    \/ FirstEvaluate
    \/ IterateNext
    \/ SnapshotItem
    \/ SingleNodeValue
    \/ CallZUXPath

SpecResult == InitIter /\ [][NextResult]_vars

\* Several results iterated in any interleaving.
NextIter ==
    \/ DocEvaluate
    \/ IterateNext

SpecIter == InitIter /\ [][NextIter]_vars

\* The nodes result q was made from, computed again from the two trees.
Matches(q) == Evaluate(queries[q].expression, linkedomDoc, xmlDoc)

\* C21: the k-th iterateNext call on a result returns its k-th node, and
\* null once the nodes ran out, on every later call too; singleNodeValue is
\* the first node or null; snapshotItem(i) is the i-th node or null when i is
\* out of range, wherever the iterator stands.
C21_ResultAccessors ==
    /\ \A q \in DOMAIN queries :
          /\ \A k \in DOMAIN yielded[q] :
                yielded[q][k] = IF k <= Len(Matches(q)) THEN Matches(q)[k] ELSE Null
          /\ queries[q].result.singleNodeValue =
                IF Matches(q) = <<>> THEN Null ELSE Matches(q)[1]
    /\ access.op = "snapshotItem" =>
          access.value = <<IF access.index \in 0..(Len(Matches(access.q)) - 1)
                           THEN Matches(access.q)[access.index + 1]
                           ELSE Null>>
    /\ access.op = "singleNodeValue" =>
          access.value = <<queries[access.q].result.singleNodeValue>>

\* C21 witness: a result of two nodes was iterated to its end and asked
\* twice more, and snapshotItem(0) was then called on it.
C21_Witness ==
    \E q \in DOMAIN queries :
        /\ Len(queries[q].result.nodes) = 2
        /\ Len(yielded[q]) = 4
        /\ yielded[q][3] = Null /\ yielded[q][4] = Null
        /\ access.op = "snapshotItem" /\ access.q = q /\ access.index = 0
        /\ access.value # <<Null>>

\* C26 (step): a doc.evaluate call makes a new result that stands before its
\* first node and holds what the expression selects in the xmldom tree now;
\* a step that is not an iterateNext call on result q leaves q as it was.
FreshAndIndependent ==
    /\ Len(queries') > Len(queries) =>
          LET new == queries'[Len(queries')]
          IN  /\ new.result.currentIndex = 0
              /\ new.result.nodes =
                    Evaluate(new.expression, linkedomDoc, xmlDoc)
    /\ \A q \in DOMAIN queries :
          yielded'[q] = yielded[q] => queries'[q] = queries[q]

\* C26: every query gives a fresh iterator placed at the first match of a
\* new evaluation, and advancing or exhausting one iterator never changes
\* what another returns: each result returns its own nodes in order whatever
\* was done to the others.
C26_IteratorsIndependent ==
    /\ [](\A q \in DOMAIN queries :
            /\ queries[q].result.currentIndex
                  = IF Len(yielded[q]) < Len(Matches(q))
                    THEN Len(yielded[q]) ELSE Len(Matches(q))
            /\ \A k \in DOMAIN yielded[q] :
                  yielded[q][k] = NodeOrNull(Matches(q), k - 1))
    /\ [][FreshAndIndependent]_vars

\* C26 witness: two results of the same expression; the first was read to
\* its end, the second returned its first node after that.
C26_Witness ==
    /\ Len(queries) = 2
    /\ queries[1].expression = queries[2].expression
    /\ Len(queries[1].result.nodes) = 2
    /\ Len(yielded[1]) = 3
    /\ yielded[2] = <<queries[2].result.nodes[1]>>

\* C25: a relative expression is evaluated from the context node given:
\* every node ZU.xpath(node, ".//tag") returns lies under `node`.
C25_RelativeToContextNode ==
    (access.op = "xpath" /\ access.expression.relative) =>
        \A k \in DOMAIN access.value :
            \/ access.q = 0
            \/ access.q \in AncestorsOrSelf(linkedomDoc,
                                            linkedomDoc[access.value[k]].parent)

\* C30: when the two trees have the same structure, every node a query
\* returns is the linkedom element at the StructuralPath of the matched
\* xmldom node, also for the root element and under a root that has a child
\* of its own tag name.
C30_ReturnedNodeAtSamePath ==
    (xpc = "evaluated" /\ SameStructure) =>
        LET matched == XPathSelect(expression, xmlDoc)
        IN  /\ Len(xresult) = Len(matched)
            /\ \A k \in DOMAIN matched : xresult[k] = Equivalent(matched[k])

\* ------------------------------------------------------------------------
\* Two extractMetadata calls in flight at once
\* (packages/core/src/index.ts, executor.ts)
\* ------------------------------------------------------------------------

\* Longest candidate list of a run here.
MaxRunCands == 1

\* Most records the translators of one run emit.
MaxEmits == 2

exceptRuns ==
    <<engineVars, resolveVars, xpathVars, batchVars, fetchVars, parseVars,
      itemVars, pathVars, iterVars, topVars>>

\* The two calls; call r is for URL r, and its i-th candidate has label
\* 100 r + i.
Runs == {1, 2}

RunCandidateLists(r) == {[i \in 1..n |-> 100 * r + i] : n \in 0..MaxRunCands}

\* Mutant of ItemsArray: `items` is one array of the module.
ItemsArrayShared(r, c) == <<1, 1>>

\* executeDoWeb: `const items: ZoteroItem[] = []`, an array of its own for
\* every call, named here by the run and the candidate of the call.
ItemsArray(r, c) == <<r, c>>

\* What a call returns (items: the array's contents when it is returned).
RunResult(status, arr, label) ==
    [status |-> status, items |-> arr, translator |-> label]

RunsInit ==
    /\ registry = "unset"
    /\ arrays = [a \in Runs \X (1..MaxRunCands) |-> <<>>]
    /\ runs \in [Runs -> [pc : {"start"},
                          cands : UNION {RunCandidateLists(r) : r \in Runs},
                          idx : {0},
                          ended : {[c \in 1..MaxRunCands |-> "none"]},
                          own : {[c \in 1..MaxRunCands |-> <<>>]},
                          emits : {0},
                          result : {RunResult("none", <<>>, 0)}]]
    /\ \A r \in Runs : runs[r].cands \in RunCandidateLists(r)

\* Run r's loop going on to the next entry, or falling off its end.
RunContinue(rn) ==
    IF rn.idx < Len(rn.cands)
    THEN [rn EXCEPT !.idx = @ + 1, !.pc = "detect"]
    ELSE [rn EXCEPT !.pc = "done", !.result = RunResult("noExtract", <<>>, 0)]

\* `await loadRegistry()`: `if (!translatorsRegistry)` starts the import.
RunLoadRegistry ==
    /\ \E r \in Runs :
          /\ runs[r].pc = "start"
          /\ runs' = [runs EXCEPT ![r].pc =
                         IF registry = "unset" THEN "import" ELSE "resolve"]
    /\ UNCHANGED <<registry, arrays, exceptRuns>>

\* The import settled: the two module variables are assigned.
RunImported ==
    /\ \E r \in Runs :
          /\ runs[r].pc = "import"
          /\ runs' = [runs EXCEPT ![r].pc = "resolve"]
    /\ registry' = "loaded"
    /\ UNCHANGED <<arrays, exceptRuns>>

\* parseHTMLDocument of the run's own text, findTranslatorsForUrl(url).
RunResolve ==
    /\ \E r \in Runs :
          /\ runs[r].pc = "resolve"
          /\ registry = "loaded"
          /\ runs' = [runs EXCEPT ![r] =
                         IF Len(@.cands) = 0
                         THEN [@ EXCEPT !.pc = "done",
                                        !.result = RunResult("noMatch", <<>>, 0)]
                         ELSE [@ EXCEPT !.pc = "detect", !.idx = 1]]
    /\ UNCHANGED <<registry, arrays, exceptRuns>>

\* `await executeDetectWeb(...)` and `if (!itemType) continue`.
RunDetect ==
    /\ \E r \in Runs, positive \in BOOLEAN :
          /\ runs[r].pc = "detect"
          /\ runs' = [runs EXCEPT ![r] =
                         IF positive
                         THEN [@ EXCEPT !.pc = "doWeb"]
                         ELSE RunContinue([@ EXCEPT !.ended[@.idx] = "negative"])]
    /\ UNCHANGED <<registry, arrays, exceptRuns>>

\* An Item of candidate c of run r is completed, in the synchronous part of
\* doWeb or in work it left behind: `items.push(item)` on the array of that
\* executeDoWeb call.  `own` keeps what the call emitted before its promise
\* resolved (history).
RunEmit ==
    /\ \E r \in Runs, c \in 1..MaxRunCands :
          /\ runs[r].emits < MaxEmits
          /\ \/ c = runs[r].idx /\ runs[r].pc \in {"doWeb", "grace"}
             \/ runs[r].ended[c] \in {"thrown", "timer"}
          /\ LET rec == [run |-> r, cand |-> c, n |-> runs[r].emits + 1]
             IN  /\ arrays' = [arrays EXCEPT ![ItemsArray(r, c)] = Append(@, rec)]
                 /\ runs' = [runs EXCEPT
                       ![r].emits = @ + 1,
                       ![r].own[c] = IF runs[r].ended[c] = "none"
                                     THEN Append(@, rec) ELSE @]
    /\ UNCHANGED <<registry, exceptRuns>>

\* doWeb throws: resolve([]), and the loop goes on.
RunDoWebThrows ==
    /\ \E r \in Runs :
          /\ runs[r].pc = "doWeb"
          /\ runs' = [runs EXCEPT ![r] =
                         RunContinue([@ EXCEPT !.ended[@.idx] = "thrown"])]
    /\ UNCHANGED <<registry, arrays, exceptRuns>>

\* doWeb returns: the 100 ms timer is armed.
RunDoWebReturns ==
    /\ \E r \in Runs :
          /\ runs[r].pc = "doWeb"
          /\ runs' = [runs EXCEPT ![r].pc = "grace"]
    /\ UNCHANGED <<registry, arrays, exceptRuns>>

\* The timer fires: resolve(items), `if (items.length > 0) return`.
RunGraceTimeout ==
    /\ \E r \in Runs :
          /\ runs[r].pc = "grace"
          /\ LET rn == runs[r]
                 got == arrays[ItemsArray(r, rn.idx)]
             IN runs' = [runs EXCEPT ![r] =
                   IF HasItems(got)
                   THEN [@ EXCEPT !.ended[rn.idx] = "timer",
                                  !.pc = "done",
                                  !.result = RunResult("success", got,
                                                       rn.cands[rn.idx])]
                   ELSE RunContinue([@ EXCEPT !.ended[rn.idx] = "timer"])]
    /\ UNCHANGED <<registry, arrays, exceptRuns>>

InitRuns ==
    /\ EngineIdle /\ ResolveIdle /\ XPathIdle
    /\ BatchIdle /\ FetchIdle /\ ParseIdle /\ ItemIdle /\ PathIdle /\ IterIdle
    /\ RunsInit /\ TopIdle

NextRuns ==
    \/ RunLoadRegistry
    \/ RunImported
    \/ RunResolve
    \/ RunDetect
    \/ RunEmit
    \/ RunDoWebThrows
    \/ RunDoWebReturns
    \/ RunGraceTimeout

SpecRuns == InitRuns /\ [][NextRuns]_vars

\* What run r returns when only its own steps are looked at: the first
\* candidate whose own extraction emitted before its timer fired wins with
\* those records.
Alone(r) ==
    LET rn == runs[r]
        W == {c \in DOMAIN rn.cands : rn.ended[c] = "timer" /\ rn.own[c] # <<>>}
    IN  IF rn.cands = <<>> THEN RunResult("noMatch", <<>>, 0)
        ELSE IF W = {} THEN RunResult("noExtract", <<>>, 0)
        ELSE LET c == CHOOSE w \in W : \A v \in W : w <= v
             IN RunResult("success", rn.own[c], rn.cands[c])

\* C22: two runs for different URLs share no mutable state: under every
\* interleaving a record emitted in one run is in no array and no result of
\* the other, and what a run returns is what its own steps give it alone.
C22_RunsIsolated ==
    /\ \A r \in Runs, c \in 1..MaxRunCands :
          \A k \in DOMAIN arrays[<<r, c>>] : arrays[<<r, c>>][k].run = r
    /\ \A r \in Runs :
          runs[r].pc = "done" =>
              /\ runs[r].result = Alone(r)
              /\ \A k \in DOMAIN runs[r].result.items :
                    runs[r].result.items[k].run = r

\* C22 witness: both runs succeeded, and run 2 emitted its record while run 1
\* was in its grace period with a record of its own.
C22_Witness ==
    /\ \A r \in Runs : runs[r].pc = "done" /\ runs[r].result.status = "success"
    /\ runs[1].result.items[1].n = 1
    /\ runs[2].result.items[1].n = 1
    /\ runs[1].result.translator # runs[2].result.translator

\* ------------------------------------------------------------------------
\* extractMetadata from its first line: registry, page fetch, parse, loop
\* (packages/core/src/index.ts)
\* ------------------------------------------------------------------------

\* The `html` option of a call: absent, the empty string, or a text.
HtmlOptions == {"undefined", "", "text"}

\* How `await fetch(url, {headers, signal: AbortSignal.timeout(timeout)})`
\* and `await response.text()` can end: an OK response with its text, a
\* response that is not OK, a rejection (network failure), the abort of the
\* timeout signal, or a body that cannot be read.
FetchOutcomes == {"ok", "notOk", "rejects", "timeout", "textRejects"}

\* The failure results of extractMetadata and their `error` text.
ErrorOf(status) ==
    CASE status = "noMatch"   -> "No matching translator found for this URL"
      [] status = "noExtract" -> "No translator could extract metadata from this page"
      [] status = "httpError" -> "HTTP ${response.status}: ${response.statusText}"
      [] status = "fault"     -> "e.message"
      [] OTHER                -> ""

\* Mutant of OuterCatch: there is no outer catch, the fault leaves the call.
OuterCatchMissing ==
    /\ result' = [status |-> "raised", items |-> 0, translator |-> 0]
    /\ pc' = "done"

\* The outer `catch (e)`: return {success: false, error: e.message}.
OuterCatch ==
    /\ result' = [status |-> "fault", items |-> 0, translator |-> 0]
    /\ pc' = "done"

\* The state of the loop that the steps before it leave alone.
loopVars ==
    <<matchingTranslators, idx, detectOutcome, itemType, doWeb, builders, items,
      resolved, returnedItems, finalOrder>>

exceptTop ==
    <<resolveVars, xpathVars, batchVars, fetchVars, parseVars, itemVars, pathVars,
      iterVars, runVars>>

\* A call of extractMetadata over at most one candidate (the loop over
\* several is the subject of Spec).
TopInit ==
    /\ pc = "start"
    /\ BeforeLoop
    /\ Len(matchingTranslators) <= 1
    /\ options \in [html : HtmlOptions]
    /\ fetchCalls = 0

\* `await loadRegistry()`: the import settles, or rejects.
LoadRegistry ==
    /\ pc = "start"
    /\ \E loaded \in BOOLEAN :
          IF loaded THEN pc' = "html" /\ result' = result ELSE OuterCatch
    /\ UNCHANGED <<loopVars, options, fetchCalls, exceptTop>>

\* `let htmlContent = html; if (!htmlContent) { ... fetch(url, ...) }`.
GetHtml ==
    /\ pc = "html"
    /\ IF Falsy(options.html)
       THEN pc' = "fetching" /\ fetchCalls' = fetchCalls + 1
       ELSE pc' = "parse" /\ fetchCalls' = fetchCalls
    /\ UNCHANGED <<result, loopVars, options, exceptTop>>

\* The page fetch settles: `if (!response.ok) return {...}`,
\* `htmlContent = await response.text()`.
PageFetchSettles ==
    /\ pc = "fetching"
    /\ \E o \in FetchOutcomes :
          CASE o = "ok"    -> pc' = "parse" /\ result' = result
            [] o = "notOk" -> /\ result' = [status |-> "httpError", items |-> 0,
                                            translator |-> 0]
                              /\ pc' = "done"
            [] OTHER       -> OuterCatch
    /\ UNCHANGED <<loopVars, options, fetchCalls, exceptTop>>

\* `parseHTMLDocument(htmlContent, url, dependencies)` returns or throws.
ParseDocument ==
    /\ pc = "parse"
    /\ \E parsed \in BOOLEAN :
          IF parsed THEN pc' = "resolve" /\ result' = result ELSE OuterCatch
    /\ UNCHANGED <<loopVars, options, fetchCalls, exceptTop>>

InitTop ==
    /\ ResolveIdle /\ XPathIdle
    /\ BatchIdle /\ FetchIdle /\ ParseIdle /\ ItemIdle /\ PathIdle
    /\ IterIdle /\ RunsIdle
    /\ TopInit

NextTop ==
    \/ LoadRegistry
    \/ GetHtml
    \/ PageFetchSettles
    \/ ParseDocument
    \/ FindTranslators
    \/ ExecuteDetectWeb
    \/ ProbeSettles
    \/ SyncCreateItem
    \/ SyncComplete
    \/ DoWebThrows
    \/ DoWebReturns
    \/ GraceTimeout
    \/ AsyncCreateItem
    \/ AsyncComplete

SpecTop == InitTop /\ [][NextTop]_vars

\* C23: extractMetadata never raises: what it returns is a success with at
\* least one record and the winner's label, or a failure with an error text
\* and no records, also when the page fetch fails, the response is not OK
\* or parsing throws.
C23_NeverRaises ==
    /\ result.status # "raised"
    /\ pc = "done" =>
          \/ /\ result.status = "success"
             /\ HasItems(returnedItems[idx])
             /\ result.items = idx
             /\ result.translator = matchingTranslators[idx]
          \/ /\ result.status \in {"noMatch", "noExtract", "httpError", "fault"}
             /\ ErrorOf(result.status) # ""
             /\ result.items = 0
             /\ result.translator = 0

\* C23 witness: a call without html whose fetch was rejected has returned.
C23_Witness ==
    /\ pc = "done"
    /\ options.html = "undefined"
    /\ fetchCalls = 1
    /\ result.status = "fault"
    /\ idx = 0

\* C24: a call that is given document text, whatever it is (the empty text
\* too), makes no fetch of the page; the timeout, which belongs to that
\* fetch, then never applies.
C24_NoFetchWhenTextGiven ==
    options.html # "undefined" => fetchCalls = 0

\* ------------------------------------------------------------------------
\* Whose records a run returns
\* ------------------------------------------------------------------------

\* C29: every record of a run's result was emitted by the winner's own
\* extraction: an Item completed during a probe, and an Item of an earlier
\* candidate's extraction (completed by work still running while later
\* candidates execute), is never among the winner's records.
C29_RecordsAreTheWinnersOwn ==
    /\ \A c \in Cands : \A k \in DOMAIN items[c] :
          /\ builders[items[c][k]].owner = c
          /\ builders[items[c][k]].phase = "doWeb"
    /\ result.status = "success" =>
          /\ result.items = idx
          /\ result.translator = matchingTranslators[idx]
          /\ \A k \in DOMAIN Deref(result.items) :
                /\ builders[Deref(result.items)[k]].owner = idx
                /\ builders[Deref(result.items)[k]].phase = "doWeb"

\* C29 witness: the second candidate won with a record of its own; the
\* first candidate's extraction had returned nothing at its timer and
\* emitted a record afterwards.
C29_Witness ==
    /\ Len(matchingTranslators) = 2
    /\ result.status = "success"
    /\ result.translator = matchingTranslators[2]
    /\ returnedItems[1] = <<>>
    /\ items[1] # <<>>

\* ------------------------------------------------------------------------
\* Termination of a run
\* ------------------------------------------------------------------------

\* The engine's own steps happen: the synchronous part of an entry point
\* returns or throws, and an armed timer fires.  When the promise of an
\* async detectWeb settles, and what a translator's leftover work does, is
\* the translator's business: no fairness is assumed of them.
SpecFair ==
    /\ Init /\ [][Next]_vars
    /\ WF_vars(FindTranslators)
    /\ WF_vars(ExecuteDetectWeb)
    /\ WF_vars(DoWebThrows \/ DoWebReturns)
    /\ WF_vars(GraceTimeout)

\* C28: every run over its candidate list comes to an end, with a winner or
\* with none.
C28_RunTerminates ==
    <>(pc = "done" /\ result.status \in {"success", "noExtract", "noMatch"})

====
